---- MODULE Spec2Model ----
(***************************************************************************)
(* Access-Aide (Sigil plugin): a model of src/src/plugin.py.               *)
(*                                                                         *)
(* Strings of the program are TLA+ strings where the code only compares   *)
(* them or uses them as dictionary keys.  Where the code looks inside a    *)
(* string (substring tests, slicing, strip, replace) the string is looked  *)
(* at through Chars, its sequence of one-character strings, or is a        *)
(* sequence of characters itself (alt texts, language tags).               *)
(***************************************************************************)
EXTENDS Integers, Sequences, FiniteSets, TLC

VARIABLES
    resolver,   \* a call of _role_from_etype: its arguments and its result
    extractor,  \* a call of get_image_metadata_alttext: arguments and result
    xhtml,      \* a content document: its transform and its alt text patches
    opf,        \* the package metadata and the runs of the metadata step on it
    run,        \* one invocation of run: the book, the locals, the editor
    nav         \* a nav or ncx document and the maps parse_nav, parse_ncx build

vars == <<resolver, extractor, xhtml, opf, run, nav>>

\* Python's None, where a TLA+ string stands for the Python value
None == "<None>"

\* Python's None, where a sequence of characters stands for a Python str
NoneStr == <<None>>

\* the characters Python's str.strip() and the regular expression \s match
Whitespace == {" ", "\n", "\t"}

(***************************************************************************)
(* String helpers (Python str semantics on sequences of characters)        *)
(***************************************************************************)

\* the characters of the tag names and texts the model inspects
Chars(s) ==
    CASE s = ""        -> << >>
      [] s = "a"       -> <<"a">>
      [] s = "g"       -> <<"g">>
      [] s = "i"       -> <<"i">>
      [] s = "s"       -> <<"s">>
      [] s = "li"      -> <<"l","i">>
      [] s = "hr"      -> <<"h","r">>
      [] s = "td"      -> <<"t","d">>
      [] s = "ol"      -> <<"o","l">>
      [] s = "ul"      -> <<"u","l">>
      [] s = "h1"      -> <<"h","1">>
      [] s = "p"       -> <<"p">>
      [] s = "img"     -> <<"i","m","g">>
      [] s = "nav"     -> <<"n","a","v">>
      [] s = "div"     -> <<"d","i","v">>
      [] s = "svg"     -> <<"s","v","g">>
      [] s = "span"    -> <<"s","p","a","n">>
      [] s = "html"    -> <<"h","t","m","l">>
      [] s = "head"    -> <<"h","e","a","d">>
      [] s = "body"    -> <<"b","o","d","y">>
      [] s = "meta"    -> <<"m","e","t","a">>
      [] s = "aside"   -> <<"a","s","i","d","e">>
      [] s = "title"   -> <<"t","i","t","l","e">>
      [] s = "thead"   -> <<"t","h","e","a","d">>
      [] s = "section" -> <<"s","e","c","t","i","o","n">>
      [] s = "metadata" -> <<"m","e","t","a","d","a","t","a">>
      [] s = "dc:language" -> <<"d","c",":","l","a","n","g","u","a","g","e">>
      [] s = "dc:title" -> <<"d","c",":","t","i","t","l","e">>
      [] s = "package" -> <<"p","a","c","k","a","g","e">>
      [] s = "navpoint" -> <<"n","a","v","p","o","i","n","t">>
      [] s = "navlabel" -> <<"n","a","v","l","a","b","e","l">>
      [] s = "text" -> <<"t","e","x","t">>
      [] s = "content" -> <<"c","o","n","t","e","n","t">>
      [] s = "navmap" -> <<"n","a","v","m","a","p">>
      [] s = "ncx" -> <<"n","c","x">>

\* Python: sub in s, for strings
IsSubstr(sub, s) ==
    \E k \in 0..(Len(s) - Len(sub)) :
        \A j \in 1..Len(sub) : s[k + j] = sub[j]

\* Python: s.endswith(suf)
EndsWith(s, suf) ==
    /\ Len(suf) <= Len(s)
    /\ \A j \in 1..Len(suf) : s[Len(s) - Len(suf) + j] = suf[j]

\* Python: s.startswith(pre)
StartsWith(s, pre) ==
    /\ Len(pre) <= Len(s)
    /\ \A j \in 1..Len(pre) : s[j] = pre[j]

\* a Python value written ("x"): parentheses around one string, a str
PyStr(s) == [kind |-> "str", v |-> s]

\* a Python tuple of strings
PyTuple(t) == [kind |-> "tuple", v |-> t]

\* Python: x in c, where c is a str (substring test) or a tuple (membership)
PyIn(x, c) ==
    IF c.kind = "str"
    THEN IsSubstr(Chars(x), Chars(c.v))
    ELSE \E i \in DOMAIN c.v : c.v[i] = x

(***************************************************************************)
(* ARIA role tables and _role_from_etype                                   *)
(***************************************************************************)

_epubtype_aria_map ==
    [ abstract |-> "doc-abstract", acknowledgments |-> "doc-acknowledgments",
      afterword |-> "doc-afterword", appendix |-> "doc-appendix",
      biblioentry |-> "doc-biblioentry", bibliography |-> "doc-bibliography",
      biblioref |-> "doc-biblioref", chapter |-> "doc-chapter",
      colophon |-> "doc-colophon", conclusion |-> "doc-conclusion",
      credit |-> "doc-credit", credits |-> "doc-credits",
      dedication |-> "doc-dedication", endnote |-> "doc-endnote",
      endnotes |-> "doc-endnotes", epigraph |-> "doc-epigraph",
      epilogue |-> "doc-epilogue", errata |-> "doc-errata",
      figure |-> "figure", footnote |-> "doc-footnote",
      foreword |-> "doc-foreword", glossary |-> "doc-glossary",
      glossdef |-> "definition", glossref |-> "doc-glossref",
      glossterm |-> "term", index |-> "doc-index",
      introduction |-> "doc-introduction", landmarks |-> "directory",
      list |-> "list", noteref |-> "doc-noteref", notice |-> "doc-notice",
      pagebreak |-> "doc-pagebreak", part |-> "doc-part",
      preface |-> "doc-preface", prologue |-> "doc-prologue",
      pullquote |-> "doc-pullquote", qna |-> "doc-qna",
      referrer |-> "doc-backlink", subtitle |-> "doc-subtitle",
      table |-> "table", tip |-> "doc-tip", toc |-> "doc-toc" ]
    @@ ( "cover-image" :> "doc-cover" ) @@ ( "list-item" :> "listitem" )
    @@ ( "page-list" :> "doc-pagelist" ) @@ ( "table-row" :> "row" )
    @@ ( "table-cell" :> "cell" )

_aria_role_allowed_tags ==
    LET sec == PyStr("section") IN
    ( "doc-abstract" :> sec ) @@ ( "doc-acknowledgments" :> sec )
    @@ ( "doc-afterword" :> sec ) @@ ( "doc-appendix" :> sec )
    @@ ( "doc-biblioentry" :> PyStr("li") ) @@ ( "doc-bibliography" :> sec )
    @@ ( "doc-biblioref" :> PyStr("a") ) @@ ( "doc-chapter" :> sec )
    @@ ( "doc-colophon" :> sec ) @@ ( "doc-conclusion" :> sec )
    @@ ( "doc-cover" :> PyStr("img") ) @@ ( "doc-credit" :> sec )
    @@ ( "doc-credits" :> sec ) @@ ( "doc-dedication" :> sec )
    @@ ( "doc-endnote" :> PyStr("li") ) @@ ( "doc-endnotes" :> sec )
    @@ ( "doc-epigraph" :> PyTuple(<< >>) ) @@ ( "doc-epilogue" :> sec )
    @@ ( "doc-errata" :> sec ) @@ ( "figure" :> PyTuple(<< >>) )
    @@ ( "doc-footnote" :> PyTuple(<<"aside", "footer", "header">>) )
    @@ ( "doc-foreword" :> sec ) @@ ( "doc-glossary" :> sec )
    @@ ( "definition" :> PyTuple(<< >>) ) @@ ( "doc-glossref" :> PyStr("a") )
    @@ ( "term" :> PyTuple(<< >>) )
    @@ ( "doc-index" :> PyTuple(<<"nav", "section">>) )
    @@ ( "doc-introduction" :> sec )
    @@ ( "directory" :> PyTuple(<<"ol", "ul">>) )
    @@ ( "list" :> PyTuple(<< >>) ) @@ ( "listitem" :> PyTuple(<< >>) )
    @@ ( "doc-noteref" :> PyStr("a") ) @@ ( "doc-notice" :> sec )
    @@ ( "doc-pagelist" :> PyTuple(<<"nav", "section">>) )
    @@ ( "doc-pagebreak" :> PyStr("hr") ) @@ ( "doc-part" :> sec )
    @@ ( "doc-preface" :> sec ) @@ ( "doc-prologue" :> sec )
    @@ ( "doc-pullquote" :> PyTuple(<<"aside", "section">>) )
    @@ ( "doc-qna" :> sec ) @@ ( "doc-backlink" :> PyStr("a") )
    @@ ( "doc-subtitle" :> PyTuple(<<"h1", "h2", "h3", "h4", "h5", "h6">>) )
    @@ ( "table" :> PyTuple(<< >>) ) @@ ( "cell" :> PyTuple(<< >>) )
    @@ ( "row" :> PyTuple(<< >>) ) @@ ( "doc-tip" :> PyStr("aside") )
    @@ ( "doc-toc" :> PyTuple(<<"nav", "section">>) )

\* the tags of _all_role_tags whose conditions are not (True, False)
_all_role_tags_special ==
    ( "a" :> <<FALSE, FALSE>> ) @@ ( "img" :> <<FALSE, TRUE>> )

\* conditions field: (href_allowed, need_alt)
_all_role_tags ==
    _all_role_tags_special @@
    [ t \in { "abbr", "address", "b", "bdi", "bdo", "blockquote", "br",
              "canvas", "cite", "code", "del", "dfn", "div", "em", "i",
              "ins", "kbd", "mark", "output", "p", "pre", "q", "rp", "rt",
              "ruby", "s", "samp", "small", "span", "strong", "sub", "sup",
              "table", "tbody", "td", "tfoot", "thead", "th", "tr", "time",
              "u", "var", "wbr" } |-> <<TRUE, FALSE>> ]

\* _role_from_etype with the href condition inverted (if href_allowed and has_href)
RoleFromEtypeHrefInverted(etype, tname, has_href, has_alt) ==
    IF etype \notin DOMAIN _epubtype_aria_map THEN None
    ELSE
      LET role == _epubtype_aria_map[etype]
          allowed ==
              /\ tname \in DOMAIN _all_role_tags
              /\ ~(_all_role_tags[tname][1] /\ has_href)
              /\ ~(_all_role_tags[tname][2] /\ ~has_alt)
      IN IF allowed THEN role
         ELSE IF role \in DOMAIN _aria_role_allowed_tags
                 /\ PyIn(tname, _aria_role_allowed_tags[role])
              THEN role
              ELSE None

\* _role_from_etype where the general-eligibility tier is skipped
RoleFromEtypeExceptionsOnly(etype, tname, has_href, has_alt) ==
    IF etype \notin DOMAIN _epubtype_aria_map THEN None
    ELSE
      LET role == _epubtype_aria_map[etype]
      IN IF role \in DOMAIN _aria_role_allowed_tags
            /\ PyIn(tname, _aria_role_allowed_tags[role])
         THEN role
         ELSE None

_role_from_etype(etype, tname, has_href, has_alt) ==
    IF etype \notin DOMAIN _epubtype_aria_map THEN None
    ELSE
      LET role == _epubtype_aria_map[etype]
          href_allowed == _all_role_tags[tname][1]
          need_alt == _all_role_tags[tname][2]
          allowed ==
              /\ tname \in DOMAIN _all_role_tags
              /\ ~(~href_allowed /\ has_href)
              /\ ~(need_alt /\ ~has_alt)
      IN IF allowed THEN role
         ELSE IF role \in DOMAIN _aria_role_allowed_tags
                 /\ PyIn(tname, _aria_role_allowed_tags[role])
              THEN role
              ELSE None

(***************************************************************************)
(* Attribute utilities: a Python str is a sequence of atoms, each one      *)
(* character or one run of characters the code never looks inside          *)
(***************************************************************************)

\* Python: s.strip(), leading part
RECURSIVE LStrip(_)
LStrip(s) ==
    IF s # << >> /\ Head(s) \in Whitespace THEN LStrip(Tail(s)) ELSE s

\* Python: s.strip(), trailing part
RECURSIVE RStrip(_)
RStrip(s) ==
    IF s # << >> /\ s[Len(s)] \in Whitespace
    THEN RStrip(SubSeq(s, 1, Len(s) - 1))
    ELSE s

\* Python: s.strip()
Strip(s) == RStrip(LStrip(s))

\* Python: s.replace(old, new): leftmost, non-overlapping occurrences
RECURSIVE Replace(_, _, _)
Replace(s, old, new) ==
    IF Len(s) < Len(old) THEN s
    ELSE IF SubSeq(s, 1, Len(old)) = old
         THEN new \o Replace(SubSeq(s, Len(old) + 1, Len(s)), old, new)
         ELSE <<Head(s)>> \o Replace(Tail(s), old, new)

\* Python: sep.join(vals)
RECURSIVE Join(_, _)
Join(vals, sep) ==
    IF vals = << >> THEN << >>
    ELSE IF Len(vals) = 1 THEN vals[1]
    ELSE vals[1] \o sep \o Join(Tail(vals), sep)

\* re.compile("\\s+").split(val) for a val that neither starts nor ends with
\* whitespace: cur is the word being read, acc the words read
RECURSIVE WhitespaceSplit(_, _, _)
WhitespaceSplit(val, cur, acc) ==
    IF val = << >> THEN (IF cur = << >> THEN acc ELSE Append(acc, cur))
    ELSE IF Head(val) \in Whitespace
         THEN WhitespaceSplit(Tail(val), << >>,
                              IF cur = << >> THEN acc ELSE Append(acc, cur))
         ELSE WhitespaceSplit(Tail(val), Append(cur, Head(val)), acc)

\* parse_attribute that splits on any whitespace, with no test for " "
ParseAttributeAnySpace(avalue) ==
    IF avalue = NoneStr THEN << >>
    ELSE WhitespaceSplit(Strip(avalue), << >>, << >>)

\* handle possible space delimited multiple attribute values
parse_attribute(avalue) ==
    IF avalue = NoneStr THEN << >>
    ELSE LET val == Strip(avalue)
         IN IF \E i \in DOMAIN val : val[i] = " "
            THEN WhitespaceSplit(val, << >>, << >>)
            ELSE IF val # << >> THEN <<val>> ELSE << >>

AMP == <<"&", "a", "m", "p", ";">>
LT == <<"&", "l", "t", ";">>
GT == <<"&", "g", "t", ";">>
QUOT == <<"&", "q", "u", "o", "t", ";">>

\* xmlencode that leaves the ampersand alone
XmlEncodeNoAmp(data) ==
    IF data = NoneStr THEN << >>
    ELSE Replace(Replace(Replace(data, <<"<">>, LT), <<">">>, GT), <<"\"">>, QUOT)

\* encode strings for xml
xmlencode(data) ==
    IF data = NoneStr THEN << >>
    ELSE Replace(Replace(Replace(Replace(data,
             <<"&">>, AMP), <<"<">>, LT), <<">">>, GT), <<"\"">>, QUOT)

\* decode xml encoded strings
xmldecode(data) ==
    IF data = NoneStr THEN << >>
    ELSE Replace(Replace(Replace(Replace(data,
             QUOT, <<"\"">>), GT, <<">">>), LT, <<"<">>), AMP, <<"&">>)

\* Python: d.get(k, default)
Get(d, k, default) == IF k \in DOMAIN d THEN d[k] ELSE default

\* Python: d[k] = v
Put(d, k, v) == [x \in DOMAIN d \cup {k} |-> IF x = k THEN v ELSE d[x]]

(***************************************************************************)
(* Image metadata extractor.  An image file is a record                    *)
(*   svg     : the path ends with .svg                                     *)
(*   desc    : the text of the first desc element of an SVG, or NoneStr    *)
(*   format  : the container format Pillow reports                         *)
(*   has_xmp : the container embeds an XMP packet                          *)
(*   items   : the li elements of the packet's AltTextAccessibility        *)
(*             element, each [lang, text]; lang NoneStr when the li has   *)
(*             no xml:lang attribute                                       *)
(*   exif270 : the EXIF ImageDescription, or NoneStr                       *)
(***************************************************************************)

\* language tags, as their characters
XDefault == <<"x", "-", "d", "e", "f", "a", "u", "l", "t">>
L_enUS == <<"e", "n", "-", "U", "S">>
L_enGB == <<"e", "n", "-", "G", "B">>
L_en == <<"e", "n">>
L_fr == <<"f", "r">>
L_de == <<"d", "e">>

\* extract base language from language code
baselang(lang) ==
    IF Len(lang) > 3 /\ IsSubstr(SubSeq(lang, 3, 3), <<"-", "_">>)
    THEN SubSeq(lang, 1, 2)
    ELSE NoneStr

\* Python truth value of a str or None
Truthy(v) == v # NoneStr /\ v # << >>

\* element.txt: bs4 looks for a child element named txt; an li of an XMP
\* language alternative holds text only
ElementTxt(element) == NoneStr

\* the loop body of parse_xmpxml_for_alttext for one li element
AltDictAdd(alt_dict, element) ==
    LET lang == IF element.lang = NoneStr THEN XDefault ELSE element.lang
        d1 == Put(alt_dict, lang, element.text)
        lg == baselang(lang)
    IN IF Truthy(lg) THEN Put(d1, lg, ElementTxt(element)) ELSE d1

RECURSIVE AltDictFrom(_, _)
AltDictFrom(items, alt_dict) ==
    IF items = << >> THEN alt_dict
    ELSE AltDictFrom(Tail(items), AltDictAdd(alt_dict, Head(items)))

parse_xmpxml_for_alttext(items) == AltDictFrom(items, << >>)

\* extract top level desc text from svg
parse_svgxml_for_desc(img) == IF img.desc = NoneStr THEN << >> ELSE img.desc

\* the formats whose XMP packet get_image_metadata_alttext looks for
XmpFormats == {"WebP", "PNG", "TIFF", "JPEG"}

\* xmpxml after the with block: the packet, when the format is searched
XmpFound(img) == img.format \in XmpFormats /\ img.has_xmp

\* description after the with block
ExifDescription(img) == IF img.exif270 # NoneStr THEN img.exif270 ELSE << >>

\* the resolution of lines 272-286 with x-default tried before the base language
ResolveAltDefaultFirst(alt_dict, tgtlang, description) ==
    IF tgtlang \in DOMAIN alt_dict THEN alt_dict[tgtlang]
    ELSE IF XDefault \in DOMAIN alt_dict THEN alt_dict[XDefault]
    ELSE LET lg == baselang(tgtlang)
         IN IF Truthy(lg) /\ lg \in DOMAIN alt_dict THEN alt_dict[lg]
            ELSE description

\* lines 274-286: the entry of alt_dict for tgtlang
ResolveAlt(alt_dict, tgtlang, description) ==
    IF tgtlang \in DOMAIN alt_dict THEN alt_dict[tgtlang]
    ELSE LET lg == baselang(tgtlang)
         IN IF Truthy(lg) /\ lg \in DOMAIN alt_dict THEN alt_dict[lg]
            ELSE IF XDefault \in DOMAIN alt_dict THEN alt_dict[XDefault]
            ELSE description

\* extract alt text from image metadata
get_image_metadata_alttext(img, tgtlang) ==
    IF img.svg THEN parse_svgxml_for_desc(img)
    ELSE IF ~XmpFound(img) THEN ExifDescription(img)
    ELSE ResolveAlt(parse_xmpxml_for_alttext(img.items), tgtlang,
                    ExifDescription(img))

\* a file get_image_metadata_alttext cannot read: Image.open raises
\* UnidentifiedImageError on bytes that are no image (line 252), the
\* unpacking of content.split(b"\x00")[:2] raises ValueError on an APP1
\* segment without a zero byte (line 265)
FaultyFile(fault) == [fault |-> fault]
Faults == {"unidentified", "app1"}

\* get_image_metadata_alttext raises on the file: no statement of lines
\* 241-286 is inside a try
ExtractorRaises(file) == "fault" \in DOMAIN file

(***************************************************************************)
(* Documents.  The tokenizer (qp.setContent, qp.parse_iter) turns markup   *)
(* into events; a document is the sequence of its events                   *)
(*   [kind, text, tname, tattr]                                            *)
(* kind "text" (text holds the run, tname is "", tattr is empty) or the    *)
(* tag type "begin", "end", "single" (text is empty).  tattr maps          *)
(* attribute names to values, each value a sequence of atoms.  The tag     *)
(* path of an event, tprefix, is the list of the elements open when the    *)
(* event is read.                                                          *)
(***************************************************************************)

EmptyAttr == << >>

TextEvent(text) == [kind |-> "text", text |-> text, tname |-> "", tattr |-> EmptyAttr]

\* qp.tag_info_to_xml(tname, ttype, tattr), as the event it is read back as
TagEvent(tname, ttype, tattr) ==
    [kind |-> ttype, text |-> << >>, tname |-> tname, tattr |-> tattr]

IsTag(ev) == ev.kind # "text"

\* the tag path after an event with tag path path
PathAfter(path, ev) ==
    IF ev.kind = "begin" THEN Append(path, ev.tname)
    ELSE IF ev.kind = "end" /\ path # << >> THEN SubSeq(path, 1, Len(path) - 1)
    ELSE path

\* Python: "head" in tprefix, tprefix the dot-joined tag path
HeadInPrefix(path) ==
    \E i \in DOMAIN path : IsSubstr(Chars("head"), Chars(path[i]))

\* Python: tprefix.endswith(name), for a name without a dot
PrefixEndsWith(path, name) ==
    path # << >> /\ EndsWith(Chars(path[Len(path)]), Chars(name))

\* Python: tprefix.endswith("title")
PrefixEndsWithTitle(path) == PrefixEndsWith(path, "title")

\* "".join(res) read back by the tokenizer: empty strings vanish and
\* adjacent text runs are one text event
RECURSIVE Tokenize(_)
Tokenize(res) ==
    IF res = << >> THEN << >>
    ELSE LET rest == Tokenize(Tail(res))
             ev == Head(res)
         IN IF IsTag(ev) THEN <<ev>> \o rest
            ELSE IF ev.text = << >> THEN rest
            ELSE IF rest # << >> /\ ~IsTag(Head(rest))
                 THEN <<TextEvent(ev.text \o Head(rest).text)>> \o Tail(rest)
                 ELSE <<ev>> \o rest

\* "".join(res) raises TypeError when res holds None
JoinRaises(res) == \E i \in DOMAIN res : ~IsTag(res[i]) /\ res[i].text = NoneStr

\* attname.strip(' \v\t\n\r\f') for the attribute names of the model
StripName(attname) ==
    CASE attname = " alt" -> "alt"
      [] attname = "id\n" -> "id"
      [] OTHER -> attname

\* lines 657-663: the attributes under their trimmed names (no two names
\* of a tag of the model trim to the same name)
TrimAttrNames(tattr) ==
    [n \in {StripName(k) : k \in DOMAIN tattr} |->
        tattr[CHOOSE k \in DOMAIN tattr : StripName(k) = n]]

\* urlparse(href).path, unquoted, resolved by bk.build_bookpath against the
\* directory of the document
build_bookpath(href, start_dir) == <<start_dir, "/">> \o href

\* bk.get_startingdir(bookpath)
get_startingdir(bookpath) == "OEBPS/Text"

\* x in vals, for a Python list
InList(x, vals) == \E i \in DOMAIN vals : vals[i] = x

\* lines 672-680: the landmark's epub:type on the tag whose id is the fragment
WithLandmark(ev, tattr, E3, landmark) ==
    IF /\ E3 /\ landmark.loctype = "id" /\ ev.kind \in {"single", "begin"}
       /\ "id" \in DOMAIN tattr /\ tattr["id"] = landmark.fragment
    THEN LET vals == parse_attribute(Get(tattr, "epub:type", << >>))
         IN IF ~InList(landmark.etype, vals)
            THEN Put(tattr, "epub:type", Join(Append(vals, landmark.etype), <<" ">>))
            ELSE tattr
    ELSE tattr

\* lines 693-695: primary language on the html tag
WithLang(ev, tattr, plang) ==
    IF ev.tname = "html" /\ ev.kind = "begin"
    THEN Put(Put(tattr, "lang", plang), "xml:lang", plang)
    ELSE tattr

\* line 699: the tags the transform counts as images
IsImgTag(ev) == ev.tname = "img" /\ ev.kind \in {"single", "begin"}

\* lines 701-702 with the alt attribute always set to the empty string
WithAltEmptied(ev, tattr) ==
    IF IsImgTag(ev) THEN Put(tattr, "alt", << >>) ELSE tattr

\* lines 701-702: the alt attribute is always present on an img tag
WithAlt(ev, tattr) ==
    IF IsImgTag(ev) THEN Put(tattr, "alt", Get(tattr, "alt", << >>)) ELSE tattr

\* the role of one epub:type value (a key of the table is one atom)
RoleOfValue(ept, tname, has_href, has_alt) ==
    IF Len(ept) = 1 THEN _role_from_etype(ept[1], tname, has_href, has_alt)
    ELSE None

\* lines 718-722: the roles of the epub:type values, appended when new
RECURSIVE MergeRoles(_, _, _, _, _)
MergeRoles(evals, rvals, tname, has_href, has_alt) ==
    IF evals = << >> THEN rvals
    ELSE LET ariarole == RoleOfValue(Head(evals), tname, has_href, has_alt)
             rv == IF ariarole # None /\ ~InList(<<ariarole>>, rvals)
                   THEN Append(rvals, <<ariarole>>) ELSE rvals
         IN MergeRoles(Tail(evals), rv, tname, has_href, has_alt)

\* lines 712-726 with the test on E3 replaced by a test that never passes
WithRolesNever(ev, tattr, E3) == tattr

\* lines 712-726: aria roles from the epub:type attribute
WithRoles(ev, tattr, E3) ==
    IF E3 /\ ev.kind \in {"begin", "single"} /\ "epub:type" \in DOMAIN tattr
    THEN LET evals == parse_attribute(tattr["epub:type"])
             rvals == parse_attribute(Get(tattr, "role", << >>))
             merged == MergeRoles(evals, rvals, ev.tname,
                                  "href" \in DOMAIN tattr, "alt" \in DOMAIN tattr)
         IN IF Len(merged) > 0 THEN Put(tattr, "role", Join(merged, <<" ">>))
            ELSE tattr
    ELSE tattr

\* the landmark of a document without an entry in etypemap (lines 646-648)
NoLandmark == [loctype |-> "", fragment |-> << >>, etype |-> << >>]

\* the state of the loop of convert_xhtml before the first event;
\* path is the tokenizer's tag path
ConvertStart ==
    [res |-> << >>, imgcnt |-> 0, imglst |-> << >>, maintitle |-> NoneStr,
     path |-> << >>]

\* lines 664-669: a text event
ConvertText(st, ev) ==
    [st EXCEPT
       !.maintitle =
          IF HeadInPrefix(st.path) /\ PrefixEndsWithTitle(st.path)
             /\ Strip(ev.text) # << >>
          THEN ev.text ELSE @,
       !.res = Append(@, ev)]

\* lines 729-739 with the title end test also requiring ttype "single"
TitleItemsNoEndInjection(st, ev, tattr, title) ==
    IF ev.tname = "title" /\ ev.kind = "single" /\ HeadInPrefix(st.path)
    THEN <<TagEvent("title", "begin", tattr), TextEvent(title),
           TagEvent("title", "end", EmptyAttr)>>
    ELSE <<TagEvent(ev.tname, ev.kind, tattr)>>

\* lines 729-747: what the loop appends to res for a tag event with
\* attributes tattr; title is titlemap.get(bookpath, "")
TitleItems(st, ev, tattr, title) ==
    LET injected ==
            IF ev.tname = "title" /\ ev.kind = "end" /\ HeadInPrefix(st.path)
               /\ st.maintitle = NoneStr
            THEN <<TextEvent(title)>> ELSE << >>
    IN IF ev.tname = "title" /\ ev.kind = "single" /\ HeadInPrefix(st.path)
       THEN injected \o <<TagEvent("title", "begin", tattr), TextEvent(title),
                          TagEvent("title", "end", EmptyAttr)>>
       ELSE injected \o <<TagEvent(ev.tname, ev.kind, tattr)>>

\* lines 699-707 where the counter also advances on img end tags
ConvertImageCountEnds(st, ev, tattr, c) ==
    IF ev.tname = "img"
    THEN [st EXCEPT !.imgcnt = @ + 1,
           !.imglst = IF IsImgTag(ev) THEN Append(@,
              [mid |-> c.mid, bookpath |-> c.bookpath, imgcnt |-> st.imgcnt + 1,
               imgsrc |-> Get(tattr, "src", << >>),
               imgbookpath |-> build_bookpath(Get(tattr, "src", << >>),
                                              get_startingdir(c.bookpath)),
               alttext |-> tattr["alt"],
               pos |-> 0]) ELSE @]
    ELSE st

\* lines 699-707: count the img tag and append its record to imglst;
\* pos, which the program does not hold, is filled in by ConvertTag
ConvertImage(st, ev, tattr, c) ==
    IF IsImgTag(ev)
    THEN [st EXCEPT !.imgcnt = @ + 1,
           !.imglst = Append(@,
              [mid |-> c.mid, bookpath |-> c.bookpath, imgcnt |-> st.imgcnt + 1,
               imgsrc |-> Get(tattr, "src", << >>),
               imgbookpath |-> build_bookpath(Get(tattr, "src", << >>),
                                              get_startingdir(c.bookpath)),
               alttext |-> tattr["alt"],
               pos |-> 0])]
    ELSE st

\* lines 670-747: a tag event; c holds the arguments of convert_xhtml.
\* The pos of an image record names its tag for the properties: it is the
\* index of the tag in res.
ConvertTag(st, ev, c) ==
    LET a0 == IF DOMAIN ev.tattr # {} THEN TrimAttrNames(ev.tattr) ELSE ev.tattr
        a1 == WithLandmark(ev, a0, c.E3, c.landmark)
        a2 == WithLang(ev, a1, c.plang)
        a3 == WithAlt(ev, a2)
        s1 == ConvertImage(st, ev, a3, c)
        a4 == WithRoles(ev, a3, c.E3)
        items == TitleItems(st, ev, a4, c.title)
        s2 == IF Len(s1.imglst) > Len(st.imglst)
              THEN [s1 EXCEPT !.imglst[Len(s1.imglst)].pos =
                                  Len(st.res) + Len(items)]
              ELSE s1
    IN [s2 EXCEPT !.res = @ \o items]

\* lines 655-747: one event of the loop of convert_xhtml
ConvertEvent(st, ev, c) ==
    LET s1 == IF IsTag(ev) THEN ConvertTag(st, ev, c) ELSE ConvertText(st, ev)
    IN [s1 EXCEPT !.path = PathAfter(st.path, ev)]

\* the loop of convert_xhtml over the events of a document; it goes on
\* from the state s1 the event leaves
RECURSIVE ConvertLoop(_, _, _)
ConvertLoop(doc, st, c) ==
    IF doc = << >> THEN st
    ELSE CHOOSE out \in { ConvertLoop(Tail(doc), s1, c) :
                            s1 \in {ConvertEvent(st, Head(doc), c)} } : TRUE

\* convert xhtml to be more Accessibility friendly: res and imglst at line
\* 749; c = [mid, bookpath, plang, title, landmark, E3], with title the
\* value of titlemap.get(bookpath, "") and landmark that of etypemap
convert_xhtml(doc, c) == ConvertLoop(doc, ConvertStart, c)

\* update_alt_text counting only self-closed img tags
UpdateStepSingleOnly(st, ev, imgcnt, alttext) ==
    IF ~IsTag(ev) THEN [st EXCEPT !.res = Append(@, ev)]
    ELSE LET counted == ev.tname = "img" /\ ev.kind = "single"
             imgptr == IF counted THEN st.imgptr + 1 ELSE st.imgptr
             target == counted /\ imgptr = imgcnt
             tattr == IF target THEN Put(ev.tattr, "alt", xmlencode(alttext))
                      ELSE ev.tattr
         IN [res |-> Append(st.res, TagEvent(ev.tname, ev.kind, tattr)),
             imgptr |-> imgptr,
             hit |-> IF target THEN Len(st.res) + 1 ELSE st.hit]

\* update_alt_text setting alt on every img tag from the target on
UpdateStepFromTarget(st, ev, imgcnt, alttext) ==
    IF ~IsTag(ev) THEN [st EXCEPT !.res = Append(@, ev)]
    ELSE LET counted == ev.tname = "img" /\ ev.kind \in {"single", "begin"}
             imgptr == IF counted THEN st.imgptr + 1 ELSE st.imgptr
             target == counted /\ imgptr >= imgcnt
             tattr == IF target THEN Put(ev.tattr, "alt", xmlencode(alttext))
                      ELSE ev.tattr
         IN [res |-> Append(st.res, TagEvent(ev.tname, ev.kind, tattr)),
             imgptr |-> imgptr,
             hit |-> IF target /\ st.hit = 0 THEN Len(st.res) + 1 ELSE st.hit]

\* lines 760-770: one event of update_alt_text.  hit, which the program
\* does not hold, is the index in res of the tag whose alt was set (0: none)
UpdateStep(st, ev, imgcnt, alttext) ==
    IF ~IsTag(ev) THEN [st EXCEPT !.res = Append(@, ev)]
    ELSE LET counted == ev.tname = "img" /\ ev.kind \in {"single", "begin"}
             imgptr == IF counted THEN st.imgptr + 1 ELSE st.imgptr
             target == counted /\ imgptr = imgcnt
             tattr == IF target THEN Put(ev.tattr, "alt", xmlencode(alttext))
                      ELSE ev.tattr
         IN [res |-> Append(st.res, TagEvent(ev.tname, ev.kind, tattr)),
             imgptr |-> imgptr,
             hit |-> IF target THEN Len(st.res) + 1 ELSE st.hit]

RECURSIVE UpdateLoop(_, _, _, _)
UpdateLoop(doc, st, imgcnt, alttext) ==
    IF doc = << >> THEN st
    ELSE CHOOSE out \in { UpdateLoop(Tail(doc), s1, imgcnt, alttext) :
                            s1 \in {UpdateStep(st, Head(doc), imgcnt, alttext)} } : TRUE

\* the loop of update_alt_text over the events of xhtmldata
UpdateScan(xhtmldata, imgcnt, alttext) ==
    UpdateLoop(xhtmldata, [res |-> << >>, imgptr |-> 0, hit |-> 0], imgcnt, alttext)

\* update xhtml img tag alt attribute text; returns updated xhtml
update_alt_text(xhtmldata, imgcnt, imgsrc, alttext) ==
    Tokenize(UpdateScan(xhtmldata, imgcnt, alttext).res)

(***************************************************************************)
(* The metadata step of run (lines 374-418)                                *)
(***************************************************************************)

\* the value of a schema:access* property or name: the prefix the code
\* tests for, then the rest
Access(rest) == <<"schema:access", rest>>

\* Python: value.startswith("schema:access")
IsAccessValue(value) == StartsWith(value, <<"schema:access">>)

\* the strings of lines 404-409 as the tokenizer reads them back
E3MetaElement(prop, text) ==
    <<TagEvent("meta", "begin", "property" :> Access(prop)), TextEvent(<<text>>),
      TagEvent("meta", "end", EmptyAttr), TextEvent(<<"\n">>)>>

E3AccessBlock ==
    E3MetaElement("ibilitySummary", "This publication conforms to WCAG 2.1 AA.")
    \o E3MetaElement("Mode", "textual") \o E3MetaElement("Mode", "visual")
    \o E3MetaElement("ModeSufficient", "textual")
    \o E3MetaElement("ibilityFeature", "structuralNavigation")
    \o E3MetaElement("ibilityHazard", "none")

\* the strings of lines 411-415 as the tokenizer reads them back
E2MetaElement(name, content) ==
    <<TagEvent("meta", "single",
               ("name" :> Access(name)) @@ ("content" :> <<content>>)),
      TextEvent(<<"\n">>)>>

E2AccessBlock ==
    E2MetaElement("ibilitySummary", "This publication conforms to WCAG 2.1 AA.")
    \o E2MetaElement("Mode", "textual")
    \o E2MetaElement("ModeSufficient", "textual")
    \o E2MetaElement("ibilityFeature", "structuralNavigation")
    \o E2MetaElement("ibilityHazard", "none")

\* lines 391-399 testing every meta tag, self-closed ones too
IsAccessMetaAnyType(ev) ==
    /\ ev.tname = "meta" /\ ev.kind \in {"begin", "single"}
    /\ \/ "property" \in DOMAIN ev.tattr /\ IsAccessValue(ev.tattr["property"])
       \/ "name" \in DOMAIN ev.tattr /\ IsAccessValue(ev.tattr["name"])

\* lines 391-399: the tag sets has_access_meta
IsAccessMeta(ev) ==
    /\ ev.tname = "meta" /\ ev.kind = "begin"
    /\ \/ "property" \in DOMAIN ev.tattr /\ IsAccessValue(ev.tattr["property"])
       \/ "name" \in DOMAIN ev.tattr /\ IsAccessValue(ev.tattr["name"])

\* lines 403-415: what is inserted before the metadata end tag
AccessBlock(E3, has_access_meta, add_accessibility_metadata) ==
    IF has_access_meta \/ ~add_accessibility_metadata THEN << >>
    ELSE IF E3 THEN E3AccessBlock ELSE E2AccessBlock

\* lines 383-416: an event of the metadata
MetadataEvent(st, ev, E3, add_accessibility_metadata) ==
    LET s1 == IF ~IsTag(ev)
              THEN [st EXCEPT !.res = Append(@, ev),
                      !.plang = IF PrefixEndsWith(st.path, "dc:language")
                                   /\ st.plang = NoneStr
                                THEN ev.text ELSE @]
              ELSE LET has == st.has_access_meta \/ IsAccessMeta(ev)
                       block == IF ev.tname = "metadata" /\ ev.kind = "end"
                                THEN AccessBlock(E3, has, add_accessibility_metadata)
                                ELSE << >>
                   IN [st EXCEPT !.has_access_meta = has,
                         !.res = @ \o block
                                   \o <<TagEvent(ev.tname, ev.kind, ev.tattr)>>]
    IN [s1 EXCEPT !.path = PathAfter(st.path, ev)]

\* lines 382-416: the loop over the events of the metadata
RECURSIVE MetadataLoop(_, _, _, _)
MetadataLoop(metaxml, st, E3, add_accessibility_metadata) ==
    IF metaxml = << >> THEN st
    ELSE CHOOSE out \in { MetadataLoop(Tail(metaxml), s1, E3, add_accessibility_metadata) :
                  s1 \in {MetadataEvent(st, Head(metaxml), E3,
                                        add_accessibility_metadata)} } : TRUE

\* lines 376-418: plang and the metadata written by bk.setmetadataxml
MetadataStep(metaxml, E3, add_accessibility_metadata) ==
    LET st == MetadataLoop(metaxml,
                  [plang |-> NoneStr, res |-> << >>, has_access_meta |-> FALSE,
                   path |-> << >>],
                  E3, add_accessibility_metadata)
    IN [plang |-> st.plang, metaxml |-> Tokenize(st.res)]

(***************************************************************************)
(* SpecRole: _role_from_etype applied to every argument tuple              *)
(***************************************************************************)

\* epub:type values: keys of _epubtype_aria_map and values it does not hold
EpubTypes ==
    { "table-cell", "biblioref", "tip", "cover-image", "chapter", "footnote",
      "toc", "subtitle", "noteref", "figure", "bodymatter", "titlepage" }

\* host tag names: tags of _all_role_tags, tags of the exception lists, others
TagNames ==
    { "td", "span", "a", "img", "div", "p", "i", "section", "aside", "nav",
      "li", "h1", "g", "body" }

Unset == "<unset>"

ResolverIdle ==
    [etype |-> "", tname |-> "", has_href |-> FALSE, has_alt |-> FALSE,
     ariarole |-> Unset]

\* no call of get_image_metadata_alttext
ExtractorIdle ==
    [img |-> [svg |-> FALSE, desc |-> NoneStr, format |-> "GIF",
              has_xmp |-> FALSE, items |-> << >>, exif270 |-> NoneStr],
     tgtlang |-> << >>, alttext |-> <<Unset>>]

\* no document
XhtmlIdle ==
    [pc |-> "idle", doc |-> << >>, c |-> << >>, res |-> << >>, data |-> << >>,
     imglst |-> << >>]

\* no package metadata
OpfIdle == [E3 |-> FALSE, add |-> FALSE, metaxml |-> << >>, plang |-> NoneStr,
            runs |-> 0, first |-> << >>]

\* no invocation of run
RunIdle == [pc |-> "idle"]

\* no navigation document
NavIdle == [pc |-> "idle"]

\* the variables SpecRole leaves alone
roleOthers == <<extractor, xhtml, opf, run, nav>>

InitRole ==
    /\ resolver \in [etype : EpubTypes, tname : TagNames, has_href : BOOLEAN,
                     has_alt : BOOLEAN, ariarole : {Unset}]
    /\ extractor = ExtractorIdle
    /\ xhtml = XhtmlIdle
    /\ opf = OpfIdle
    /\ run = RunIdle
    /\ nav = NavIdle

\* ariarole = _role_from_etype(ept, tname, has_href, has_alt)
Resolve ==
    /\ resolver.ariarole = Unset
    /\ resolver' = [resolver EXCEPT !.ariarole =
           _role_from_etype(resolver.etype, resolver.tname,
                            resolver.has_href, resolver.has_alt)]
    /\ UNCHANGED roleOthers

NextRole == Resolve

SpecRole == InitRole /\ [][NextRole]_vars

Resolved == resolver.ariarole # Unset

\* C3 as stated: epub:type "table-cell" on tag "td" resolves to role "cell",
\* and epub:type "biblioref" on tag "span" resolves to no role, whatever
\* has_href and has_alt are.
C3_BibliorefOnSpanNoRole ==
    Resolved =>
      /\ (resolver.etype = "table-cell" /\ resolver.tname = "td")
            => resolver.ariarole = "cell"
      /\ (resolver.etype = "biblioref" /\ resolver.tname = "span")
            => resolver.ariarole = None

\* C3 amended: epub:type "table-cell" on tag "td" resolves to role "cell",
\* and epub:type "biblioref" on tag "span" resolves to role "doc-biblioref"
\* (span is in the general-eligibility table and allows href), whatever
\* has_href and has_alt are.
C3_TableCellAndBiblioref ==
    Resolved =>
      /\ (resolver.etype = "table-cell" /\ resolver.tname = "td")
            => resolver.ariarole = "cell"
      /\ (resolver.etype = "biblioref" /\ resolver.tname = "span")
            => resolver.ariarole = "doc-biblioref"

\* biblioref on a span carrying an href has been resolved
C3_Witness ==
    /\ Resolved
    /\ resolver.etype = "biblioref" /\ resolver.tname = "span"
    /\ resolver.has_href
    /\ resolver.ariarole = "doc-biblioref"

\* C4: no role when the epub:type is not a key of the epubType-to-role
\* table; the mapped role when the host tag is in the general-eligibility
\* table and neither (has_href and the tag disallows href) nor (the tag
\* needs alt and has_alt is false).
C4_GeneralEligibility ==
    Resolved =>
      /\ resolver.etype \notin DOMAIN _epubtype_aria_map
            => resolver.ariarole = None
      /\ ( /\ resolver.etype \in DOMAIN _epubtype_aria_map
           /\ resolver.tname \in DOMAIN _all_role_tags
           /\ ~(resolver.has_href /\ ~_all_role_tags[resolver.tname][1])
           /\ ~(_all_role_tags[resolver.tname][2] /\ ~resolver.has_alt) )
            => resolver.ariarole = _epubtype_aria_map[resolver.etype]

\* an img with alt and without href has received the role of its epub:type
C4_Witness ==
    /\ Resolved
    /\ resolver.etype = "cover-image" /\ resolver.tname = "img"
    /\ resolver.has_alt /\ ~resolver.has_href
    /\ resolver.ariarole = "doc-cover"

\* the tag names written in the exception list of a role
ListedTags(role) ==
    IF role \notin DOMAIN _aria_role_allowed_tags THEN {}
    ELSE LET tagset == _aria_role_allowed_tags[role]
         IN IF tagset.kind = "str" THEN {tagset.v}
            ELSE {tagset.v[i] : i \in DOMAIN tagset.v}

\* the general-eligibility tier grants the role of the call
GenerallyEligible ==
    /\ resolver.tname \in DOMAIN _all_role_tags
    /\ ~(resolver.has_href /\ ~_all_role_tags[resolver.tname][1])
    /\ ~(_all_role_tags[resolver.tname][2] /\ ~resolver.has_alt)

\* C13: when the general-eligibility tier does not grant the role, the
\* role is returned only if the host tag name equals one of the tag names
\* of the role's exception list, and no role otherwise; epub:type "tip"
\* (role doc-tip, exception list: aside) on tag "a" with an href yields no
\* role.
C13_ExceptionListExact ==
    (Resolved /\ resolver.etype \in DOMAIN _epubtype_aria_map /\ ~GenerallyEligible) =>
      /\ resolver.ariarole =
            IF resolver.tname \in ListedTags(_epubtype_aria_map[resolver.etype])
            THEN _epubtype_aria_map[resolver.etype] ELSE None
      /\ (resolver.etype = "tip" /\ resolver.tname = "a" /\ resolver.has_href)
            => resolver.ariarole = None

(***************************************************************************)
(* SpecAlt: get_image_metadata_alttext applied to image files              *)
(***************************************************************************)

\* the most li elements in an AltTextAccessibility element
MaxItems == 3

\* alt texts found in image metadata
T_cat == <<"A cat">>
T_animal == <<"An animal">>
T_image == <<"Image">>
T_chat == <<"Un chat">>
T_exif == <<"Exif text">>
T_desc == <<"Svg desc">>

\* li elements: [lang, text]
LiElements ==
    { [lang |-> L_enUS, text |-> T_cat], [lang |-> L_en, text |-> T_animal],
      [lang |-> NoneStr, text |-> T_image], [lang |-> XDefault, text |-> T_image],
      [lang |-> L_fr, text |-> T_chat] }

\* sequences over S of length at most n
SeqsUpTo(S, n) == UNION { [1..k -> S] : k \in 0..n }

\* raster image files
RasterImages ==
    [svg : {FALSE}, desc : {NoneStr}, format : {"PNG", "JPEG", "GIF"},
     has_xmp : {TRUE}, items : SeqsUpTo(LiElements, MaxItems),
     exif270 : {NoneStr, T_exif}]
    \cup
    [svg : {FALSE}, desc : {NoneStr}, format : {"PNG", "GIF"},
     has_xmp : {FALSE}, items : {<< >>}, exif270 : {NoneStr, T_exif}]

\* SVG image files
SvgImages ==
    [svg : {TRUE}, desc : {NoneStr, T_desc}, format : {"SVG"},
     has_xmp : {FALSE}, items : {<< >>}, exif270 : {NoneStr}]

TargetLangs == {L_enGB, L_enUS, L_en, L_de}

\* the variables SpecAlt leaves alone
altOthers == <<resolver, xhtml, opf, run, nav>>

InitAlt ==
    /\ extractor \in [img : RasterImages \cup SvgImages, tgtlang : TargetLangs,
                      alttext : {<<Unset>>}]
    /\ resolver = ResolverIdle
    /\ xhtml = XhtmlIdle
    /\ opf = OpfIdle
    /\ run = RunIdle
    /\ nav = NavIdle

\* alttext = get_image_metadata_alttext(imgpath, plang)
Extract ==
    /\ extractor.alttext = <<Unset>>
    /\ extractor' = [extractor EXCEPT !.alttext =
           get_image_metadata_alttext(extractor.img, extractor.tgtlang)]
    /\ UNCHANGED altOthers

NextAlt == Extract

SpecAlt == InitAlt /\ [][NextAlt]_vars

Extracted == extractor.alttext # <<Unset>>

\* the language-to-text map of the call, when an XMP packet was found
GivenAltDict == parse_xmpxml_for_alttext(extractor.img.items)

\* the map of the example: en-US, en, x-default
ExampleAltDict ==
    (L_enUS :> T_cat) @@ (L_en :> T_animal) @@ (XDefault :> T_image)

\* C9: given an XMP language-to-text map and a target language, the result
\* is the entry for the exact target language if present, else the entry
\* for the target's base language code if present, else the x-default
\* entry if present, else the EXIF ImageDescription, else the empty string;
\* for the map {en-US: A cat, en: An animal, x-default: Image} and target
\* en-GB it is "An animal".
C9_AltPrecedence ==
    (Extracted /\ ~extractor.img.svg /\ XmpFound(extractor.img)) =>
      LET d == GivenAltDict
          tgt == extractor.tgtlang
          base == IF Len(tgt) > 3 /\ tgt[3] \in {"-", "_"}
                  THEN <<tgt[1], tgt[2]>> ELSE NoneStr
          r == extractor.alttext
      IN /\ tgt \in DOMAIN d => r = d[tgt]
         /\ (tgt \notin DOMAIN d /\ base \in DOMAIN d) => r = d[base]
         /\ (tgt \notin DOMAIN d /\ base \notin DOMAIN d
               /\ XDefault \in DOMAIN d) => r = d[XDefault]
         /\ (tgt \notin DOMAIN d /\ base \notin DOMAIN d
               /\ XDefault \notin DOMAIN d)
              => r = (IF extractor.img.exif270 # NoneStr
                      THEN extractor.img.exif270 ELSE << >>)
         /\ (d = ExampleAltDict /\ tgt = L_enGB) => r = T_animal

\* the example: the map is {en-US, en, x-default}, the target en-GB, and the
\* base-language entry was returned
C9_Witness ==
    /\ Extracted
    /\ XmpFound(extractor.img)
    /\ GivenAltDict = ExampleAltDict
    /\ extractor.tgtlang = L_enGB
    /\ extractor.alttext = T_animal

\* C16: parse_xmpxml_for_alttext registers every AltTextAccessibility item
\* whose language tag has a base code under that two-letter base code with
\* the item's text, so a packet whose only item is xml:lang="en-US" with
\* text T makes the extraction with target language "en-GB" return T.
C16_BaseLanguageRegistered ==
    (Extracted /\ ~extractor.img.svg /\ XmpFound(extractor.img)) =>
      LET items == extractor.img.items
          d == GivenAltDict
      IN /\ \A i \in DOMAIN items :
               (items[i].lang # NoneStr /\ baselang(items[i].lang) # NoneStr) =>
                   /\ baselang(items[i].lang) \in DOMAIN d
                   /\ \E j \in DOMAIN items :
                         /\ items[j].lang # NoneStr
                         /\ baselang(items[i].lang)
                               \in {items[j].lang, baselang(items[j].lang)}
                         /\ d[baselang(items[i].lang)] = items[j].text
         /\ (items = <<[lang |-> L_enUS, text |-> T_cat]>>
               /\ extractor.tgtlang = L_enGB) => extractor.alttext = T_cat

(***************************************************************************)
(* SpecXhtml: convert_xhtml on a content document, then update_alt_text    *)
(* on the document it wrote                                                *)
(***************************************************************************)

\* the most elements in the body of a document
MaxBody == 3

Tag(tname, ttype) == TagEvent(tname, ttype, EmptyAttr)

\* an alt attribute value holding an XML-escaped ampersand
AltEscaped == <<"R">> \o AMP \o <<"D">>

\* the title elements of a head
TitleVariants ==
    { << >>,
      <<Tag("title", "begin"), Tag("title", "end")>>,
      <<Tag("title", "begin"), TextEvent(<<"\n", " ">>), Tag("title", "end")>>,
      <<Tag("title", "single")>>,
      <<Tag("title", "begin"), TextEvent(<<"Old">>), Tag("title", "end")>> }

\* the elements of a body
ImgNoAlt == <<TagEvent("img", "single", "src" :> <<"a.png">>)>>
ImgPair ==
    <<TagEvent("img", "begin", ("src" :> <<"b.png">>) @@ (" alt" :> AltEscaped)),
      Tag("img", "end")>>
Section ==
    <<TagEvent("section", "begin", "epub:type" :> <<"chapter">>),
      TextEvent(<<"Hi">>), Tag("section", "end")>>

BodyElements == {ImgNoAlt, ImgPair, Section}

RECURSIVE Flatten(_)
Flatten(seqs) == IF seqs = << >> THEN << >> ELSE Head(seqs) \o Flatten(Tail(seqs))

\* a content document with the given title elements and body elements
Document(title, body) ==
    <<Tag("html", "begin"), Tag("head", "begin")>> \o title
    \o <<Tag("head", "end"), Tag("body", "begin")>> \o Flatten(body)
    \o <<Tag("body", "end"), Tag("html", "end")>>

Documents ==
    { Document(t, b) : t \in TitleVariants, b \in SeqsUpTo(BodyElements, MaxBody) }

T_chapter == <<"Chapter", " ", "1">>

\* titlemap.get(bookpath, ""): no entry, a title, or the None parse_ncx
\* stores for a navPoint without label text
TitleEntries == {<< >>, T_chapter, NoneStr}

\* the arguments of convert_xhtml other than the document
ConvertArgs ==
    [mid : {"ch1"}, bookpath : {"OEBPS/Text/ch1.xhtml"}, plang : {L_enGB},
     title : TitleEntries, landmark : {NoLandmark}, E3 : BOOLEAN]

\* the alt text a patch writes
T_new == <<"A", "&", "\"", "B", "\"", "<">>
PatchTexts == {T_new}

\* the image records with pos the index of the tag in the document written
ImgRecords(cv) ==
    [k \in 1..Len(cv.imglst) |->
        [cv.imglst[k] EXCEPT !.pos = Len(Tokenize(SubSeq(cv.res, 1, @)))]]

\* the variables SpecXhtml leaves alone
xhtmlOthers == <<resolver, extractor, opf, run, nav>>

InitXhtml ==
    /\ xhtml \in [pc : {"read"}, doc : Documents, c : ConvertArgs, res : {<< >>},
                  data : {<< >>}, imglst : {<< >>}]
    /\ resolver = ResolverIdle
    /\ extractor = ExtractorIdle
    /\ opf = OpfIdle
    /\ run = RunIdle
    /\ nav = NavIdle

\* lines 463-464: xhtmldata, ilst = convert_xhtml(...); bk.writefile(mid,
\* xhtmldata); the join of line 749 raises when res holds None
Convert ==
    /\ xhtml.pc = "read"
    /\ LET cv == convert_xhtml(xhtml.doc, xhtml.c)
       IN xhtml' = IF JoinRaises(cv.res)
                   THEN [xhtml EXCEPT !.pc = "raised", !.res = cv.res]
                   ELSE [xhtml EXCEPT !.pc = "written", !.res = cv.res,
                           !.data = Tokenize(cv.res), !.imglst = ImgRecords(cv)]
    /\ UNCHANGED xhtmlOthers

\* lines 519-521: data = bk.readfile(mid); data = update_alt_text(bk, data,
\* imgcnt, imgsrc, altnew); bk.writefile(mid, data)
Patch(imgcnt, altnew) ==
    /\ xhtml.pc \in {"written", "patched"}
    /\ xhtml' = [xhtml EXCEPT !.pc = "patched",
                  !.data = update_alt_text(xhtml.data, imgcnt, << >>, altnew)]
    /\ UNCHANGED xhtmlOthers

NextXhtml ==
    \/ Convert
    \/ \E imgcnt \in 1..(Len(xhtml.imglst) + 1), altnew \in PatchTexts :
          Patch(imgcnt, altnew)

SpecXhtml == InitXhtml /\ [][NextXhtml]_vars

\* the indices of the img begin and self-closed tags of a document
ImgTagIndices(doc) ==
    { i \in DOMAIN doc : doc[i].tname = "img" /\ doc[i].kind \in {"begin", "single"} }

Transformed == xhtml.pc \in {"written", "patched"}

\* C1: the transform records the img tags (begin or self-closed) of a
\* document with the indices 1..N in document order, and the counter of
\* the patch pass, scanning the document the transform wrote, reaches k at
\* the tag recorded with index k, also after patches of other images.
C1_ImageIndexing ==
    Transformed =>
      LET recs == xhtml.imglst
          data == xhtml.data
      IN /\ Len(recs) = Cardinality(ImgTagIndices(xhtml.doc))
         /\ { recs[k].pos : k \in DOMAIN recs } = ImgTagIndices(data)
         /\ \A k \in DOMAIN recs :
               /\ recs[k].imgcnt = k
               /\ \A j \in 1..(k - 1) : recs[j].pos < recs[k].pos
               /\ Get(data[recs[k].pos].tattr, "src", << >>) = recs[k].imgsrc
               /\ \A t \in PatchTexts : UpdateScan(data, k, t).hit = recs[k].pos

\* two images with the same src, the first patched and the second not
C1_Witness ==
    /\ xhtml.pc = "patched"
    /\ Len(xhtml.imglst) >= 2
    /\ xhtml.imglst[1].imgsrc = xhtml.imglst[2].imgsrc
    /\ xhtml.data[xhtml.imglst[1].pos].tattr["alt"] = xmlencode(T_new)
    /\ xhtml.data[xhtml.imglst[2].pos].tattr["alt"] = xhtml.imglst[2].alttext

\* T_new, XML-escaped
T_new_escaped ==
    <<"A", "&", "a", "m", "p", ";", "&", "q", "u", "o", "t", ";", "B",
      "&", "q", "u", "o", "t", ";", "&", "l", "t", ";">>

\* the event at index i is the k-th img tag (begin or self-closed) of doc
IsKthImg(doc, i, k) ==
    /\ i \in ImgTagIndices(doc)
    /\ Cardinality({ j \in ImgTagIndices(doc) : j <= i }) = k

\* what a patch of image imgcnt with altnew may change
PatchFrame(imgcnt, altnew) ==
    LET old == xhtml.data
        new == xhtml'.data
    IN /\ Len(new) = Len(old)
       /\ \A i \in DOMAIN old :
             IF IsKthImg(old, i, imgcnt)
             THEN /\ new[i].kind = old[i].kind /\ new[i].tname = old[i].tname
                  /\ DOMAIN new[i].tattr = DOMAIN old[i].tattr \cup {"alt"}
                  /\ new[i].tattr["alt"] = T_new_escaped
                  /\ \A a \in DOMAIN old[i].tattr \ {"alt"} :
                        new[i].tattr[a] = old[i].tattr[a]
             ELSE new[i] = old[i]

\* C2: update_alt_text changes only the alt attribute of the
\* targetImageIndex-th img tag, which becomes the XML-escaped new alt text;
\* every other event is re-emitted unchanged and in order; nothing changes
\* when targetImageIndex exceeds the number of img tags.
C2_PatchFrame ==
    [][ \A imgcnt \in 1..(Len(xhtml.imglst) + 1) :
          Patch(imgcnt, T_new) => PatchFrame(imgcnt, T_new) ]_vars

\* the second of three images has been patched, the others keep their alt
C2_Witness ==
    /\ xhtml.pc = "patched"
    /\ Len(xhtml.imglst) = 3
    /\ xhtml.data[xhtml.imglst[2].pos].tattr["alt"] = T_new_escaped
    /\ xhtml.data[xhtml.imglst[1].pos].tattr["alt"] = xhtml.imglst[1].alttext
    /\ xhtml.data[xhtml.imglst[3].pos].tattr["alt"] = xhtml.imglst[3].alttext

\* the events between the head begin tag and the head end tag
HeadSlice(doc) ==
    LET b == CHOOSE i \in DOMAIN doc : doc[i].tname = "head" /\ doc[i].kind = "begin"
        e == CHOOSE i \in DOMAIN doc : doc[i].tname = "head" /\ doc[i].kind = "end"
    IN SubSeq(doc, b + 1, e - 1)

\* a non-whitespace text event lies in the title of the head
HasTitleText(head) ==
    \E i \in DOMAIN head :
        /\ head[i].kind = "text"
        /\ \E j \in DOMAIN head[i].text : head[i].text[j] \notin Whitespace
        /\ i > 1 /\ head[i - 1].tname = "title" /\ head[i - 1].kind = "begin"

\* the head with the title text t before each title end tag and each
\* self-closed title as begin tag, t, end tag
RECURSIVE WithTitleText(_, _)
WithTitleText(head, t) ==
    IF head = << >> THEN << >>
    ELSE LET ev == Head(head)
             rest == WithTitleText(Tail(head), t)
         IN IF ev.tname = "title" /\ ev.kind = "end"
            THEN <<TextEvent(t), ev>> \o rest
            ELSE IF ev.tname = "title" /\ ev.kind = "single"
            THEN <<Tag("title", "begin"), TextEvent(t), Tag("title", "end")>> \o rest
            ELSE <<ev>> \o rest

Converted == xhtml.pc \in {"written", "raised"}

\* C8: when no non-whitespace text event occurs inside head/title, the
\* title-map entry of the document is emitted as text immediately before
\* the title end tag, a self-closed title becoming begin tag, text, end
\* tag; when one occurs, the events of the title are re-emitted unchanged.
\* An empty title with the entry "Chapter 1" is written as
\* <title>Chapter 1</title>.
C8_TitleInjection ==
    /\ Converted =>
         LET head == HeadSlice(xhtml.doc)
         IN HeadSlice(xhtml.res) =
               IF HasTitleText(head) THEN head
               ELSE WithTitleText(head, xhtml.c.title)
    /\ ( /\ xhtml.pc = "written"
         /\ HeadSlice(xhtml.doc) = <<Tag("title", "begin"), Tag("title", "end")>>
         /\ xhtml.c.title = T_chapter )
         => HeadSlice(xhtml.data) =
              <<Tag("title", "begin"), TextEvent(T_chapter), Tag("title", "end")>>

\* a self-closed title has been written as <title>Chapter 1</title>
C8_Witness ==
    /\ xhtml.pc = "written"
    /\ HeadSlice(xhtml.doc) = <<Tag("title", "single")>>
    /\ xhtml.c.title = T_chapter
    /\ HeadSlice(xhtml.data) =
          <<Tag("title", "begin"), TextEvent(T_chapter), Tag("title", "end")>>

\* the alt value of a tag of the input, the empty string when it has none
InputAlt(ev) == Get(TrimAttrNames(ev.tattr), "alt", << >>)

\* C18: in the output of convert_xhtml every img tag (begin or
\* self-closing) carries an alt attribute, whose value is the input's alt
\* value when the input tag had one and the empty string otherwise; the
\* image record appended for the tag carries the same alt value.
C18_AltAlwaysPresent ==
    xhtml.pc = "written" =>
      /\ \A o \in ImgTagIndices(xhtml.data) : "alt" \in DOMAIN xhtml.data[o].tattr
      /\ Len(xhtml.imglst) = Cardinality(ImgTagIndices(xhtml.doc))
      /\ \A k \in DOMAIN xhtml.imglst : \A i \in DOMAIN xhtml.doc :
            IsKthImg(xhtml.doc, i, k) =>
               /\ xhtml.imglst[k].alttext = InputAlt(xhtml.doc[i])
               /\ IsImgTag(xhtml.data[xhtml.imglst[k].pos])
               /\ xhtml.data[xhtml.imglst[k].pos].tattr["alt"] = InputAlt(xhtml.doc[i])

\* a document with an img without alt and an img with an alt value has
\* been written: the first carries alt="", the second its value
C18_Witness ==
    /\ xhtml.pc = "written"
    /\ Len(xhtml.imglst) = 2
    /\ \E i, j \in ImgTagIndices(xhtml.doc) :
          /\ i < j
          /\ DOMAIN xhtml.doc[i].tattr = {"src"}
          /\ InputAlt(xhtml.doc[j]) = AltEscaped
    /\ xhtml.imglst[1].alttext = << >>
    /\ xhtml.data[xhtml.imglst[1].pos].tattr["alt"] = << >>
    /\ xhtml.imglst[2].alttext = AltEscaped
    /\ xhtml.data[xhtml.imglst[2].pos].tattr["alt"] = AltEscaped

(***************************************************************************)
(* SpecTag: convert_xhtml on documents whose body is one element carrying  *)
(* epub:type and role attributes                                           *)
(***************************************************************************)

\* the most values of an epub:type attribute and of a role attribute
MaxVals == 2

\* epub:type values: two keys of _epubtype_aria_map and a value it lacks
TypeValues == {<<"chapter">>, <<"tip">>, <<"bodymatter">>}

\* role values of the input
RoleValues == {<<"doc-chapter">>, <<"note">>}

\* the host elements: tag name and tag type
HostTags == {"section", "span", "a"} \X {"begin", "single"}

\* what separates the values of a role attribute: a space or a tab
RoleSeps == {<<" ">>, <<"\t">>}

\* the attributes of a host element: an href on an a element, the
\* space-separated values of epub:type, the values of role separated by
\* sep (no attribute when there is no value)
HostAttrs(tname, types, roles, sep) ==
    (IF tname = "a" THEN "href" :> <<"n1">> ELSE EmptyAttr)
    @@ (IF types = << >> THEN EmptyAttr ELSE "epub:type" :> Join(types, <<" ">>))
    @@ (IF roles = << >> THEN EmptyAttr ELSE "role" :> Join(roles, sep))

\* a document with the host element as its body
TagDocument(host, types, roles, sep) ==
    Document(<<Tag("title", "begin"), TextEvent(<<"Old">>), Tag("title", "end")>>,
             << <<TagEvent(host[1], host[2], HostAttrs(host[1], types, roles, sep))>>
                \o (IF host[2] = "begin" THEN <<Tag(host[1], "end")>> ELSE << >>) >>)

TagDocuments ==
    { TagDocument(host, types, roles, sep) :
        host \in HostTags, types \in SeqsUpTo(TypeValues, MaxVals),
        roles \in SeqsUpTo(RoleValues, MaxVals), sep \in RoleSeps }

InitTag ==
    /\ xhtml \in [pc : {"read"}, doc : TagDocuments,
                  c : [mid : {"ch1"}, bookpath : {"OEBPS/Text/ch1.xhtml"},
                       plang : {L_enGB}, title : {<< >>}, landmark : {NoLandmark},
                       E3 : BOOLEAN],
                  res : {<< >>}, data : {<< >>}, imglst : {<< >>}]
    /\ resolver = ResolverIdle
    /\ extractor = ExtractorIdle
    /\ opf = OpfIdle
    /\ run = RunIdle
    /\ nav = NavIdle

NextTag == Convert

SpecTag == InitTag /\ [][NextTag]_vars

\* a list without its repeated values, the first occurrences kept in order
RECURSIVE Dedup(_, _)
Dedup(vals, acc) ==
    IF vals = << >> THEN acc
    ELSE Dedup(Tail(vals), IF InList(Head(vals), acc) THEN acc
                           ELSE Append(acc, Head(vals)))

\* the roles derived from the epub:type values, each appended to acc when
\* it is not in it
RECURSIVE WithDerived(_, _, _, _, _)
WithDerived(types, acc, tname, has_href, has_alt) ==
    IF types = << >> THEN acc
    ELSE LET role == _role_from_etype(Head(types)[1], tname, has_href, has_alt)
         IN WithDerived(Tail(types),
                        IF role = None \/ InList(<<role>>, acc) THEN acc
                        ELSE Append(acc, <<role>>),
                        tname, has_href, has_alt)

\* the values of a space-separated attribute, << >> without the attribute
ValuesOf(tattr, name) ==
    IF name \in DOMAIN tattr THEN WhitespaceSplit(tattr[name], << >>, << >>)
    ELSE << >>

\* the tag of the document written that a tag of the input became
WrittenTag(ev) ==
    xhtml.data[CHOOSE o \in DOMAIN xhtml.data :
                   xhtml.data[o].tname = ev.tname /\ xhtml.data[o].kind = ev.kind]

\* C17: for EPUB3, for every begin or single tag carrying epub:type, the
\* role attribute convert_xhtml writes is the de-duplicated list of the
\* role values of the input (none removed, order kept) followed by every
\* role derived from the epub:type values, in order, that is not already
\* in the list; no role value occurs twice in it.
C17_RolesMerged ==
    (xhtml.pc = "written" /\ xhtml.c.E3) =>
        \A i \in DOMAIN xhtml.doc :
            (xhtml.doc[i].kind \in {"begin", "single"}
               /\ "epub:type" \in DOMAIN xhtml.doc[i].tattr) =>
                LET ev == xhtml.doc[i]
                    expected ==
                        WithDerived(ValuesOf(ev.tattr, "epub:type"),
                                    Dedup(ValuesOf(ev.tattr, "role"), << >>),
                                    ev.tname, "href" \in DOMAIN ev.tattr,
                                    "alt" \in DOMAIN ev.tattr)
                    written == ValuesOf(WrittenTag(ev).tattr, "role")
                IN /\ written = expected
                   /\ \A m, n \in DOMAIN written : written[m] = written[n] => m = n

(***************************************************************************)
(* SpecMeta: the metadata step of run applied again and again to the       *)
(* package metadata it wrote                                               *)
(***************************************************************************)

MaxMeta == 2
MaxRuns == 2

\* an element of the metadata: its events
DcLanguage == <<TagEvent("dc:language", "begin", EmptyAttr), TextEvent(L_enGB),
                TagEvent("dc:language", "end", EmptyAttr)>>

DcLanguageEmpty == <<TagEvent("dc:language", "single", EmptyAttr)>>

DcTitle == <<TagEvent("dc:title", "begin", EmptyAttr), TextEvent(<<"Book">>),
             TagEvent("dc:title", "end", EmptyAttr)>>

MetaCover == <<TagEvent("meta", "single",
                   ("name" :> <<"cover">>) @@ ("content" :> <<"img1">>))>>

MetaModified == <<TagEvent("meta", "begin", "property" :> <<"dcterms:modified">>),
                  TextEvent(<<"2021">>), TagEvent("meta", "end", EmptyAttr)>>

MetaElements == {DcLanguage, DcLanguageEmpty, DcTitle, MetaCover, MetaModified}

\* the metadata section of an OPF holding the given elements
Metadata(elements) ==
    <<TagEvent("metadata", "begin", EmptyAttr)>> \o Flatten(elements)
    \o <<TagEvent("metadata", "end", EmptyAttr)>>

Metadatas == {Metadata(es) : es \in SeqsUpTo(MetaElements, MaxMeta)}

\* the variables SpecMeta leaves alone
metaOthers == <<resolver, extractor, xhtml, run, nav>>

InitMeta ==
    /\ opf \in [E3 : BOOLEAN, add : BOOLEAN, metaxml : Metadatas,
                 plang : {NoneStr}, runs : {0}, first : {<< >>}]
    /\ resolver = ResolverIdle
    /\ extractor = ExtractorIdle
    /\ xhtml = XhtmlIdle
    /\ run = RunIdle
    /\ nav = NavIdle

\* lines 376-418 on the metadata of the book
RunMetadataStep ==
    /\ opf.runs < MaxRuns
    /\ LET m == MetadataStep(opf.metaxml, opf.E3, opf.add)
       IN opf' = [opf EXCEPT !.metaxml = m.metaxml, !.plang = m.plang,
                            !.runs = @ + 1,
                            !.first = IF opf.runs = 0 THEN m.metaxml ELSE @]
    /\ UNCHANGED metaOthers

NextMeta == RunMetadataStep

SpecMeta == InitMeta /\ [][NextMeta]_vars

\* the schema:access* meta elements of a metadata section
AccessMetas(metaxml) ==
    {i \in DOMAIN metaxml : IsTag(metaxml[i]) /\ IsAccessMetaAnyType(metaxml[i])}

\* C5: a second run of the metadata step on metadata the first run annotated
\* inserts no further schema:access* meta element, for EPUB3 and for EPUB2.
C5_SecondRunInsertsNothing ==
    opf.runs >= 2 =>
        Cardinality(AccessMetas(opf.metaxml)) = Cardinality(AccessMetas(opf.first))

\* the second run of an EPUB3 book that the first run annotated
C5_Epub3Rerun ==
    /\ opf.runs >= 2 /\ opf.E3 /\ opf.add
    /\ Cardinality(AccessMetas(opf.first)) = 6
    /\ Cardinality(AccessMetas(opf.metaxml)) = 6
(***************************************************************************)
(* parse_nav and parse_ncx                                                 *)
(***************************************************************************)

\* the index of the first "#" of an href, or 0
HashAt(href) ==
    IF \E i \in DOMAIN href : href[i] = "#"
    THEN CHOOSE i \in DOMAIN href : href[i] = "#" /\ \A j \in 1..(i - 1) : href[j] # "#"
    ELSE 0

\* unquote(urlparse(href).path) of a relative href without query
UrlPath(href) ==
    IF HashAt(href) = 0 THEN href ELSE SubSeq(href, 1, HashAt(href) - 1)

\* urlparse(href).fragment
UrlFragment(href) ==
    IF HashAt(href) = 0 THEN << >> ELSE SubSeq(href, HashAt(href) + 1, Len(href))

\* lines 555-579: a tag event of the nav
NavTag(st, ev, nav_base) ==
    LET s1 == IF ev.tname = "nav" /\ ev.kind = "begin" /\ "epub:type" \in DOMAIN ev.tattr
              THEN [st EXCEPT !.in_toc = ev.tattr["epub:type"] = <<"toc">>,
                              !.in_lms = ev.tattr["epub:type"] = <<"landmarks">>]
              ELSE st
        s2 == IF s1.in_toc /\ ev.tname = "a" /\ ev.kind = "begin"
                 /\ "href" \in DOMAIN ev.tattr
              THEN [s1 EXCEPT !.tochref = ev.tattr["href"], !.getlabel = TRUE]
              ELSE s1
    IN IF s2.in_lms /\ ev.tname = "a" /\ ev.kind = "begin"
          /\ "href" \in DOMAIN ev.tattr /\ "epub:type" \in DOMAIN ev.tattr
          /\ UrlFragment(ev.tattr["href"]) # << >>
       THEN [s2 EXCEPT !.etypemap =
                Put(@, build_bookpath(UrlPath(ev.tattr["href"]), nav_base),
                    [loctype |-> "id", fragment |-> UrlFragment(ev.tattr["href"]),
                     etype |-> ev.tattr["epub:type"]])]
       ELSE s2

\* lines 580-596: a text event of the nav
NavText(st, ev, navbookpath, nav_base) ==
    LET s1 == IF st.navtitle = NoneStr /\ PrefixEndsWith(st.path, "h1")
              THEN [st EXCEPT !.navtitle = ev.text,
                              !.titlemap = Put(@, navbookpath, ev.text)]
              ELSE st
    IN IF s1.in_toc /\ s1.getlabel
       THEN IF s1.tochref # NoneStr
            THEN LET bookpath == build_bookpath(UrlPath(s1.tochref), nav_base)
                 IN [s1 EXCEPT !.titlemap = IF bookpath # s1.prevbookpath
                                            THEN Put(@, bookpath, ev.text) ELSE @,
                               !.prevbookpath = bookpath,
                               !.tochref = NoneStr, !.getlabel = FALSE]
            ELSE [s1 EXCEPT !.getlabel = FALSE]
       ELSE s1

\* lines 553-596: an event of the nav
NavEvent(st, ev, navbookpath, nav_base) ==
    LET s1 == IF IsTag(ev) THEN NavTag(st, ev, nav_base)
              ELSE NavText(st, ev, navbookpath, nav_base)
    IN [s1 EXCEPT !.path = PathAfter(st.path, ev)]

\* lines 553-596: the loop of parse_nav
RECURSIVE NavLoop(_, _, _, _)
NavLoop(doc, st, navbookpath, nav_base) ==
    IF doc = << >> THEN st
    ELSE CHOOSE out \in { NavLoop(Tail(doc), s1, navbookpath, nav_base) :
                  s1 \in {NavEvent(st, Head(doc), navbookpath, nav_base)} } : TRUE

\* titlemap and etypemap of the nav document navdoc (launcher >= 20190927)
parse_nav(navdoc, navbookpath) ==
    LET st == NavLoop(navdoc,
                 [titlemap |-> EmptyAttr, etypemap |-> EmptyAttr, in_toc |-> FALSE,
                  in_lms |-> FALSE, getlabel |-> FALSE, navtitle |-> NoneStr,
                  tochref |-> NoneStr, prevbookpath |-> << >>, path |-> << >>],
                 navbookpath, get_startingdir(navbookpath))
    IN [titlemap |-> st.titlemap, etypemap |-> st.etypemap]

\* Python: tp.endswith(".navpoint.navlabel.text")
InNavLabelText(path) ==
    /\ Len(path) >= 4
    /\ SubSeq(path, Len(path) - 2, Len(path)) = <<"navpoint", "navlabel", "text">>

\* the local navlabel of parse_ncx before its first assignment
Unbound == <<"<unbound>">>

\* lines 613-629: an event of the ncx; raised is the UnboundLocalError of
\* line 627 reading navlabel before any assignment
NcxEvent(st, ev, ncx_base) ==
    IF ~IsTag(ev)
    THEN IF InNavLabelText(st.path) THEN [st EXCEPT !.navlabel = Strip(ev.text)]
         ELSE st
    ELSE IF ev.tname = "content" /\ "src" \in DOMAIN ev.tattr
            /\ PrefixEndsWith(st.path, "navpoint")
         THEN LET bookpath == build_bookpath(UrlPath(ev.tattr["src"]), ncx_base)
              IN IF bookpath # st.prevbookpath /\ st.navlabel = Unbound
                 THEN [st EXCEPT !.raised = TRUE]
                 ELSE [st EXCEPT !.titlemap = IF bookpath # st.prevbookpath
                                              THEN Put(@, bookpath, st.navlabel)
                                              ELSE @,
                                 !.prevbookpath = bookpath,
                                 !.navlabel = NoneStr]
         ELSE st

\* lines 613-629: the event and the tag path after it
NcxStep(st, ev, ncx_base) ==
    [NcxEvent(st, ev, ncx_base) EXCEPT !.path = PathAfter(st.path, ev)]

\* lines 613-629: the loop of parse_ncx
RECURSIVE NcxLoop(_, _, _)
NcxLoop(doc, st, ncx_base) ==
    IF doc = << >> \/ st.raised THEN st
    ELSE CHOOSE out \in { NcxLoop(Tail(doc), s1, ncx_base) :
                  s1 \in {NcxStep(st, Head(doc), ncx_base)} } : TRUE

\* the titlemap of the ncx document ncxdoc, or raised (launcher >= 20190927)
parse_ncx(ncxdoc, ncxbookpath) ==
    LET st == NcxLoop(ncxdoc,
                 [titlemap |-> EmptyAttr, navlabel |-> Unbound,
                  prevbookpath |-> << >>, raised |-> FALSE, path |-> << >>],
                 get_startingdir(ncxbookpath))
    IN [titlemap |-> st.titlemap, raised |-> st.raised]


(***************************************************************************)
(* run.  The book is a record                                              *)
(*   launcher_version, epub_version, media (the mimes of media_iter),      *)
(*   manifest (mid and properties of the items of manifest_epub3_iter),    *)
(*   metaxml, packagetag (the attributes of the package tag), ncx,         *)
(*   text (the ids of text_iter), files (id -> document),                  *)
(*   images (bookpath -> mime and file)                                    *)
(***************************************************************************)

VersionFloor == 20210430

\* bk.id_to_bookpath(mid), every file of the model lying in OEBPS/Text
id_to_bookpath(mid) == <<"OEBPS/Text", "/", mid>>

\* lines 343-345: an audio or video item in media_iter
MediaDisables(media) ==
    \E i \in DOMAIN media :
        StartsWith(media[i], <<"audio">>) \/ StartsWith(media[i], <<"video">>)

\* mprops is not None and prop in mprops
HasProp(item, prop) == item.mprops # NoneStr /\ IsSubstr(<<prop>>, item.mprops)

\* lines 354-358: a manifest item with the mathml or scripted property
ManifestDisables(manifest) ==
    \E i \in DOMAIN manifest :
        HasProp(manifest[i], "mathml") \/ HasProp(manifest[i], "scripted")

\* lines 342-358 with the flag left True whatever the book holds
AddAccessibilityMetadataAlways(bk, E3) == TRUE

\* lines 342-358: add_accessibility_metadata
add_accessibility_metadata(bk, E3) ==
    ~MediaDisables(bk.media) /\ ~(E3 /\ ManifestDisables(bk.manifest))

\* lines 359-364: navid after the loop over the manifest
NavId(manifest) ==
    LET navs == {i \in DOMAIN manifest : HasProp(manifest[i], "nav")}
    IN IF navs = {} THEN None
       ELSE manifest[CHOOSE i \in navs : \A j \in navs : j <= i].mid

\* line 420 with the test dropped
LanguageNeverMissing(plang) == FALSE

\* line 420: if plang is None
LanguageMissing(plang) == plang = NoneStr

\* lines 425-439: xml:lang on the package tag
PackageTag(tattr, plang) ==
    IF "xml:lang" \notin DOMAIN tattr THEN Put(tattr, "xml:lang", plang) ELSE tattr

\* lines 459-466: the loop over text_iter; st holds the files, imglst and
\* the calls made so far, c = [plang, titlemap, etypemap, E3]; raised is
\* the TypeError of "".join(res) in convert_xhtml (line 749) on a None item
RECURSIVE TransformLoop(_, _, _)

\* lines 464-466 for document mid, cv the loop state convert_xhtml ends in
TransformDoc(mids, st, c, mid, cv) ==
    IF JoinRaises(cv.res)
    THEN [st EXCEPT !.raised = TRUE, !.converted = Append(@, mid)]
    ELSE TransformLoop(Tail(mids),
             [st EXCEPT !.files[mid] = Tokenize(cv.res),
                        !.imglst = @ \o cv.imglst,
                        !.converted = Append(@, mid),
                        !.written = Append(@, mid)], c)

\* lines 459-463: the arguments of convert_xhtml for document mid
TransformArgs(mid, c) ==
    [mid |-> mid, bookpath |-> id_to_bookpath(mid), plang |-> c.plang,
     title |-> Get(c.titlemap, id_to_bookpath(mid), << >>),
     landmark |-> Get(c.etypemap, id_to_bookpath(mid), NoLandmark),
     E3 |-> c.E3]

TransformLoop(mids, st, c) ==
    IF mids = << >> \/ st.raised THEN st
    ELSE TransformDoc(mids, st, c, Head(mids),
             convert_xhtml(st.files[Head(mids)], TransformArgs(Head(mids), c)))

\* lines 496 and 515: key = imgbookpath + _US + bookpath + _US + str(imgcnt)
Key(rec) == <<rec.imgbookpath, rec.bookpath, rec.imgcnt>>

\* lines 492-500: the entry of altlist for an image record
AltEntry(rec, images, plang) ==
    LET alttext == IF rec.alttext = << >>
                   THEN get_image_metadata_alttext(images[rec.imgbookpath].file, plang)
                   ELSE rec.alttext
    IN [imgbookpath |-> rec.imgbookpath, mime |-> images[rec.imgbookpath].mime,
        key |-> Key(rec), alttxt |-> xmldecode(alttext)]

\* line 498: imgmime[imgbookpath] raises KeyError for some record
MimeLookupRaises(imglst, images) ==
    \E k \in DOMAIN imglst : imglst[k].imgbookpath \notin DOMAIN images

\* lines 493-494: the call of get_image_metadata_alttext for the record
\* raises, on a path with no file in temp_dir (open and Image.open raise
\* FileNotFoundError) or on a file it cannot read
ExtractionRaises(rec, images) ==
    /\ rec.alttext = << >>
    /\ \/ rec.imgbookpath \notin DOMAIN images
       \/ ExtractorRaises(images[rec.imgbookpath].file)

\* lines 491-500: the loop building altlist raises for some record
AltListRaises(imglst, images) ==
    \/ \E k \in DOMAIN imglst : ExtractionRaises(imglst[k], images)
    \/ MimeLookupRaises(imglst, images)

\* accessgui.py SetImages: altdata[key] = atext for every resource
SetImages(altlist) ==
    [key \in {altlist[k].key : k \in DOMAIN altlist} |->
        altlist[CHOOSE k \in DOMAIN altlist : altlist[k].key = key].alttxt]

\* line 517: if alttext != altnew
AltDiffers(alttext, altnew) == alttext # altnew

\* lines 514-521: the loop over imglst of the patches
RECURSIVE PatchLoop(_, _, _)
PatchLoop(imglst, st, naltdict) ==
    IF imglst = << >> THEN st
    ELSE LET rec == Head(imglst)
             altnew == naltdict[Key(rec)]
         IN PatchLoop(Tail(imglst),
               IF AltDiffers(rec.alttext, altnew)
               THEN [st EXCEPT
                       !.files[rec.mid] =
                           update_alt_text(@, rec.imgcnt, rec.imgsrc, altnew),
                       !.updated = Append(@, Key(rec)),
                       !.written = Append(@, rec.mid)]
               ELSE st,
               naltdict)


(***************************************************************************)
(* SpecRun: one invocation of run on a book, with the user at the editor   *)
(***************************************************************************)

MaxDocs == 2

\* an img tag with a plain alt attribute
ImgPlain ==
    <<TagEvent("img", "single", ("src" :> <<"c.png">>) @@ ("alt" :> <<"x">>))>>

\* the target of the landmark of the nav
SectionId ==
    <<TagEvent("section", "begin", "id" :> <<"f1">>), TextEvent(<<"Hi">>),
      Tag("section", "end")>>

\* the content documents of the books
RunDocs ==
    { Document(<<Tag("title", "begin"), Tag("title", "end")>>, <<ImgNoAlt, SectionId>>),
      Document(<<Tag("title", "begin"), TextEvent(<<"Old">>), Tag("title", "end")>>,
               <<ImgPair, Section>>),
      Document(<<Tag("title", "single")>>, <<ImgPlain>>) }

\* the manifest id of the k-th content document
DocId(k) == IF k = 1 THEN "ch1.xhtml" ELSE IF k = 2 THEN "ch2.xhtml" ELSE "ch3.xhtml"

NavId0 == "nav.xhtml"

\* an entry of the toc of the nav
NavEntry(href, label) ==
    <<Tag("li", "begin"), TagEvent("a", "begin", "href" :> href), TextEvent(label),
      Tag("a", "end"), Tag("li", "end")>>

\* the nav document: a heading, a toc and a landmark
NavDoc ==
    <<Tag("html", "begin"), Tag("head", "begin"), Tag("title", "begin"),
      Tag("title", "end"), Tag("head", "end"), Tag("body", "begin"),
      TagEvent("nav", "begin", "epub:type" :> <<"toc">>),
      Tag("h1", "begin"), TextEvent(<<"Contents">>), Tag("h1", "end"),
      Tag("ol", "begin")>>
    \o NavEntry(<<"ch1.xhtml">>, <<"One">>)
    \o NavEntry(<<"ch2.xhtml">>, <<"Two">>)
    \o NavEntry(<<"ch3.xhtml">>, <<"Three">>)
    \o <<Tag("ol", "end"), Tag("nav", "end"),
         TagEvent("nav", "begin", "epub:type" :> <<"landmarks">>),
         TagEvent("a", "begin", ("href" :> <<"ch1.xhtml", "#", "f1">>)
                                @@ ("epub:type" :> <<"chapter">>)),
         TextEvent(<<"Start">>), Tag("a", "end"), Tag("nav", "end"),
         Tag("body", "end"), Tag("html", "end")>>

\* a navPoint of the ncx: label is the text of its navLabel, << >> for none
NavPoint(label, src) ==
    <<Tag("navpoint", "begin"), Tag("navlabel", "begin"), Tag("text", "begin")>>
    \o (IF label = << >> THEN << >> ELSE <<TextEvent(label)>>)
    \o <<Tag("text", "end"), Tag("navlabel", "end"),
         TagEvent("content", "single", "src" :> src), Tag("navpoint", "end")>>

Ncx(points) ==
    <<Tag("ncx", "begin"), Tag("navmap", "begin")>> \o Flatten(points)
    \o <<Tag("navmap", "end"), Tag("ncx", "end")>>

\* the ncx documents: every navPoint labelled; the second without label
\* text; the first without label text
NcxDocs ==
    { Ncx(<<NavPoint(<<"One">>, <<"ch1.xhtml">>), NavPoint(<<"Two">>, <<"ch2.xhtml">>),
            NavPoint(<<"Three">>, <<"ch3.xhtml">>)>>),
      Ncx(<<NavPoint(<<"One">>, <<"ch1.xhtml">>), NavPoint(<< >>, <<"ch2.xhtml">>),
            NavPoint(<<"Three">>, <<"ch3.xhtml">>)>>),
      Ncx(<<NavPoint(<< >>, <<"ch1.xhtml">>), NavPoint(<<"Two">>, <<"ch2.xhtml">>)>>) }

\* an image file without metadata
PlainImage == [svg |-> FALSE, desc |-> NoneStr, format |-> "PNG", has_xmp |-> FALSE,
               items |-> << >>, exif270 |-> NoneStr]

\* the image is not among the images of the book
NoFile == [absent |-> TRUE]

\* the image files of a book; a[1] is the file of a.png, a[2] of c.png
Images(a) ==
    (IF a[1] = NoFile THEN EmptyAttr
     ELSE id_to_bookpath("a.png") :> [mime |-> "image/png", file |-> a[1]])
    @@ (id_to_bookpath("b.png") :> [mime |-> "image/png", file |-> PlainImage])
    @@ (IF a[2] = NoFile THEN EmptyAttr
        ELSE id_to_bookpath("c.png") :> [mime |-> "image/png", file |-> a[2]])

\* the manifest items other than the content documents: the nav, with or
\* without its property, and one more item with properties mprops
Manifest(navprops, mprops) ==
    <<[mid |-> NavId0, mprops |-> navprops], [mid |-> "x", mprops |-> mprops]>>

\* the books: an EPUB3 book lists its nav in text_iter, an EPUB2 book
\* has an ncx
Book(version, E3, media, navprops, mprops, ncx, metaxml, docs, a) ==
    [launcher_version |-> version,
     epub_version |-> IF E3 THEN <<"3", ".", "0">> ELSE <<"2", ".", "0">>,
     media |-> media,
     manifest |-> Manifest(navprops, mprops),
     metaxml |-> metaxml,
     packagetag |-> EmptyAttr,
     ncx |-> ncx,
     text |-> [k \in 1..Len(docs) |-> DocId(k)]
              \o (IF E3 THEN <<NavId0>> ELSE << >>),
     files |-> [m \in {DocId(k) : k \in 1..Len(docs)}
                       \cup (IF E3 THEN {NavId0} ELSE {}) |->
                  IF m = NavId0 THEN NavDoc
                  ELSE docs[CHOOSE k \in 1..Len(docs) : DocId(k) = m]],
     images |-> Images(a)]

Medias == {<< >>, <<<<"audio", "/", "mpeg">>>>}

DocLists == SeqsUpTo(RunDocs, MaxDocs) \ {<< >>}

RunMetadatas == {Metadata(<<DcTitle>>), Metadata(<<DcTitle, DcLanguage>>)}

AFiles ==
    { <<a, PlainImage>> :
        a \in {PlainImage, [PlainImage EXCEPT !.exif270 = T_exif], NoFile}
              \cup {FaultyFile(f) : f \in Faults} }
    \cup {<<PlainImage, NoFile>>}

Books ==
    { Book(v, TRUE, media, navprops, mprops, << >>, metaxml, docs, a) :
        v \in {VersionFloor - 1, VersionFloor}, media \in Medias,
        navprops \in {NoneStr, <<"nav">>},
        mprops \in {NoneStr, <<"mathml">>, <<"scripted">>},
        metaxml \in RunMetadatas, docs \in DocLists, a \in AFiles }
    \cup
    { Book(v, FALSE, media, NoneStr, NoneStr, ncx, metaxml, docs, a) :
        v \in {VersionFloor - 1, VersionFloor}, media \in Medias,
        ncx \in NcxDocs, metaxml \in RunMetadatas, docs \in DocLists, a \in AFiles }

\* the texts the user types into the alt column
EditTexts == {T_new, AltEscaped}

\* run before its first statement; status << >> is no return value yet
RunStart(bk) ==
    [pc |-> "start", bk |-> bk, status |-> << >>, add |-> TRUE, plang |-> NoneStr,
     imglst |-> << >>, temp_dir |-> "none", altdata |-> EmptyAttr,
     naltdict |-> EmptyAttr, setmeta |-> FALSE, converted |-> << >>,
     written |-> << >>, gui |-> FALSE, updated |-> << >>,
     rows |-> EmptyAttr, said_ok |-> FALSE]

\* the variables SpecRun leaves alone
runOthers == <<resolver, extractor, xhtml, opf, nav>>

InitRun ==
    /\ run \in {RunStart(bk) : bk \in Books}
    /\ resolver = ResolverIdle
    /\ extractor = ExtractorIdle
    /\ xhtml = XhtmlIdle
    /\ opf = OpfIdle
    /\ nav = NavIdle


\* lines 441-450: titlemap and etypemap; raised when parse_ncx raises
TitleMaps(bk, E3, navid) ==
    IF E3 THEN LET n == parse_nav(bk.files[navid], id_to_bookpath(navid))
               IN [titlemap |-> n.titlemap, etypemap |-> n.etypemap, raised |-> FALSE]
    ELSE LET n == parse_ncx(bk.ncx, id_to_bookpath("toc.ncx"))
         IN [titlemap |-> n.titlemap, etypemap |-> EmptyAttr, raised |-> n.raised]

\* lines 502-506: the editor is shown when altlist is not empty
RunEditor(r, altlist) ==
    IF Len(altlist) > 0
    THEN [r EXCEPT !.pc = "editor", !.temp_dir = "exists", !.gui = TRUE,
                   !.altdata = SetImages(altlist), !.rows = SetImages(altlist)]
    ELSE [r EXCEPT !.pc = "closed", !.temp_dir = "exists"]

\* lines 468-500: the temporary copies of the images and altlist; tl is
\* the state the loop over text_iter ended in
RunAltList(r, bk, plang, tl) ==
    IF tl.raised
    THEN [r EXCEPT !.bk.files = tl.files, !.converted = tl.converted,
                   !.written = tl.written, !.imglst = tl.imglst, !.pc = "raised"]
    ELSE IF AltListRaises(tl.imglst, bk.images)
    THEN [r EXCEPT !.bk.files = tl.files, !.converted = tl.converted,
                   !.written = tl.written, !.imglst = tl.imglst,
                   !.pc = "raised", !.temp_dir = "exists"]
    ELSE RunEditor([r EXCEPT !.bk.files = tl.files, !.converted = tl.converted,
                             !.written = tl.written, !.imglst = tl.imglst],
                   [k \in DOMAIN tl.imglst |-> AltEntry(tl.imglst[k], bk.images, plang)])

\* lines 452-466: the content documents, given the maps of the nav or ncx
RunTransform(r, bk, E3, plang, maps) ==
    IF maps.raised THEN [r EXCEPT !.pc = "raised"]
    ELSE RunAltList(r, bk, plang,
             TransformLoop(bk.text,
                 [files |-> bk.files, imglst |-> << >>, converted |-> << >>,
                  written |-> << >>, raised |-> FALSE],
                 [plang |-> plang, titlemap |-> maps.titlemap,
                  etypemap |-> maps.etypemap, E3 |-> E3]))

\* lines 418-450: the metadata is written, the language is required, the
\* package tag gets its xml:lang; m is the outcome of the metadata step
RunLanguage(r, bk, E3, navid, m) ==
    IF LanguageMissing(m.plang)
    THEN [r EXCEPT !.bk.metaxml = m.metaxml, !.setmeta = TRUE,
                   !.pc = "returned", !.status = <<-1>>]
    ELSE RunTransform(
             [r EXCEPT !.bk.metaxml = m.metaxml, !.setmeta = TRUE, !.plang = m.plang,
                       !.bk.packagetag = IF E3 THEN PackageTag(@, m.plang) ELSE @],
             bk, E3, m.plang, TitleMaps(bk, E3, navid))

\* lines 350-418: the nav is required for EPUB3; the metadata step
RunMetadata(r, bk, E3, add, navid) ==
    IF E3 /\ navid = None
    THEN [r EXCEPT !.pc = "returned", !.status = <<-1>>, !.add = add]
    ELSE RunLanguage([r EXCEPT !.add = add], bk, E3, navid,
                     MetadataStep(bk.metaxml, E3, add))

\* lines 328-364: the version floor, the EPUB version, the flag, the nav
RunVersion(r, bk, E3) ==
    IF bk.launcher_version < VersionFloor
    THEN [r EXCEPT !.pc = "returned", !.status = <<1>>]
    ELSE RunMetadata(r, bk, E3, add_accessibility_metadata(bk, E3), NavId(bk.manifest))

\* lines 328-506: run up to the point where it returns, raises, or has
\* the editor shown (GUIUpdateFromList) or skipped
RunToEditor ==
    /\ run.pc = "start"
    /\ run' = RunVersion(run, run.bk, StartsWith(run.bk.epub_version, <<"3">>))
    /\ UNCHANGED runOthers

\* accessgui.py setModelData, UpdateAltTextForItem: the user edits the alt
\* text of a row; rows holds the texts of column 2 of editModel
EditAltText(key, text) ==
    /\ run.pc = "editor"
    /\ key \in DOMAIN run.altdata
    /\ run.altdata[key] # text
    /\ run' = [run EXCEPT !.rows[key] = text, !.altdata[key] = text]
    /\ UNCHANGED runOthers

\* accessgui.py lines 288-289 for the descriptions of the model: desc if
\* len(desc) <= 400 else desc[:397] + "..."
Shorten(desc) ==
    IF Len(desc) <= 400 THEN desc ELSE SubSeq(desc, 1, 397) \o <<".", ".", ".">>

\* the ways a call of _generate_alt ends: the image file cannot be read,
\* the service answers with an HTTP error status, another exception
\* (timeout, a body that is not the expected JSON), a description
AIOutcomes ==
    { [kind |-> "unreadable", desc |-> << >>, code |-> 0],
      [kind |-> "http", desc |-> << >>, code |-> 500],
      [kind |-> "error", desc |-> << >>, code |-> 0],
      [kind |-> "ok", desc |-> <<" ", "A", " ", "cat", "\n">>, code |-> 200],
      [kind |-> "ok", desc |-> <<" ">>, code |-> 200] }

\* _generate_alt where an HTTP error status yields the empty string
GenerateAltHttpEmpty(outcome) ==
    IF outcome.kind = "ok" THEN Shorten(Strip(outcome.desc)) ELSE << >>

\* accessgui.py _generate_alt: the text returned for an outcome
_generate_alt(outcome) ==
    IF outcome.kind = "unreadable" THEN << >>
    ELSE IF outcome.kind = "http" THEN <<"ERROR_API_", ToString(outcome.code)>>
    ELSE IF outcome.kind = "error" THEN << >>
    ELSE Shorten(Strip(outcome.desc))

\* accessgui.py lines 202-203: the rows whose alt text is blank
MissingRows(rows) == {key \in DOMAIN rows : Strip(rows[key]) = << >>}

\* accessgui.py onAIFillAll: the user presses the autofill button; api_key
\* tells whether OPENAI_API_KEY is set, out gives the outcome of the
\* request of each blank row
AIFillAll(api_key, out) ==
    /\ run.pc = "editor"
    /\ DOMAIN out = MissingRows(run.rows)
    /\ LET filled == {key \in DOMAIN out : api_key /\ Truthy(_generate_alt(out[key]))}
           text == [key \in DOMAIN run.rows |->
                      IF key \in filled THEN _generate_alt(out[key]) ELSE run.rows[key]]
       IN run' = [run EXCEPT !.rows = text,
                      !.altdata = [key \in DOMAIN @ |->
                                     IF key \in filled THEN text[key] ELSE @[key]]]
    /\ UNCHANGED runOthers

\* accessgui.py GetResults with the test on said_ok dropped
GetResultsAlways(altdata, said_ok) == altdata

\* accessgui.py GetResults
GetResults(altdata, said_ok) == IF said_ok THEN altdata ELSE EmptyAttr

\* accessgui.py AcceptChanges, GetResults: the user presses OK
AcceptChanges ==
    /\ run.pc = "editor"
    /\ run' = [run EXCEPT !.pc = "closed", !.said_ok = TRUE,
                          !.naltdict = GetResults(run.altdata, TRUE)]
    /\ UNCHANGED runOthers

\* accessgui.py reject, GetResults: the user presses Cancel or closes the
\* dialog
RejectChanges ==
    /\ run.pc = "editor"
    /\ run' = [run EXCEPT !.pc = "closed",
                          !.naltdict = GetResults(run.altdata, run.said_ok)]
    /\ UNCHANGED runOthers

\* line 506: GUIUpdateFromList raises (QApplication, the dialog or one of
\* its slots); neither accessgui.py nor run catches it
EditorFails ==
    /\ run.pc = "editor"
    /\ run' = [run EXCEPT !.pc = "raised"]
    /\ UNCHANGED runOthers

\* lines 509-529: after the editor has returned
RunFromEditor ==
    /\ run.pc = "closed"
    /\ LET st == IF run.naltdict # EmptyAttr
                 THEN PatchLoop(run.imglst,
                          [files |-> run.bk.files, updated |-> << >>,
                           written |-> run.written],
                          run.naltdict)
                 ELSE [files |-> run.bk.files, updated |-> << >>,
                       written |-> run.written]
       IN run' = [run EXCEPT !.pc = "returned", !.status = <<0>>,
                            !.temp_dir = "removed", !.bk.files = st.files,
                            !.updated = st.updated, !.written = st.written]
    /\ UNCHANGED runOthers

NextRun ==
    \/ RunToEditor
    \/ \E key \in DOMAIN run.altdata, text \in EditTexts : EditAltText(key, text)
    \/ \E api_key \in BOOLEAN, out \in [MissingRows(run.rows) -> AIOutcomes] :
          AIFillAll(api_key, out)
    \/ AcceptChanges
    \/ RejectChanges
    \/ EditorFails
    \/ RunFromEditor

SpecRun == InitRun /\ [][NextRun]_vars
\* E3 of the run
RunE3 == StartsWith(run.bk.epub_version, <<"3">>)

\* the book holds an audio or video item
HasAudioVideo == \E i \in DOMAIN run.bk.media : run.bk.media[i][1] \in {"audio", "video"}

\* a manifest item carries the property
HasManifestProp(prop) ==
    \E i \in DOMAIN run.bk.manifest :
        /\ run.bk.manifest[i].mprops # NoneStr
        /\ \E j \in DOMAIN run.bk.manifest[i].mprops : run.bk.manifest[i].mprops[j] = prop

\* a text lies directly in a dc:language element of the metadata
HasLanguageText ==
    \E i \in 2..Len(run.bk.metaxml) :
        /\ run.bk.metaxml[i].kind = "text"
        /\ run.bk.metaxml[i - 1].kind = "begin"
        /\ run.bk.metaxml[i - 1].tname = "dc:language"

\* the fatal cases
Fatal ==
    \/ run.bk.launcher_version < 20210430
    \/ RunE3 /\ ~HasManifestProp("nav")
    \/ ~HasLanguageText

\* C7: run returns a non-zero status in each fatal case (launcher version
\* below 20210430; EPUB3 without a manifest item with the nav property; no
\* dc:language text), and then no content document is transformed or
\* written and the editor is not invoked; when no fatal case holds and run
\* completes, it returns 0.
C7_FatalCases ==
    /\ run.pc = "returned" => (Fatal <=> run.status # <<0>>)
    /\ Fatal => /\ run.pc \in {"start", "returned"}
                /\ run.converted = << >> /\ run.written = << >> /\ ~run.gui
                /\ run.temp_dir = "none"

\* run has returned -1 for the missing language, after writing the metadata
C7_Witness ==
    /\ run.pc = "returned" /\ run.status = <<-1>>
    /\ run.bk.launcher_version >= 20210430 /\ ~RunE3 /\ ~HasLanguageText
    /\ run.setmeta /\ run.converted = << >>

\* the elements of a sequence
Range(seq) == {seq[i] : i \in DOMAIN seq}

\* the book holds what disables the accessibility metadata
Disabled == HasAudioVideo \/ (RunE3 /\ (HasManifestProp("mathml") \/ HasManifestProp("scripted")))

\* some tag of a written document carries a role attribute
RoleDerived ==
    \E mid \in Range(run.written) : \E i \in DOMAIN run.bk.files[mid] :
        "role" \in DOMAIN run.bk.files[mid][i].tattr

\* the html tag of the document carries the primary language
LangSet(doc) ==
    /\ \E i \in DOMAIN doc : doc[i].tname = "html" /\ doc[i].kind = "begin"
    /\ \A i \in DOMAIN doc : doc[i].tname = "html" /\ doc[i].kind = "begin" =>
          /\ "lang" \in DOMAIN doc[i].tattr /\ doc[i].tattr["lang"] = run.plang
          /\ "xml:lang" \in DOMAIN doc[i].tattr /\ doc[i].tattr["xml:lang"] = run.plang

\* the img tags of document mid are recorded 1..N and carry an alt attribute
Inventoried(mid) ==
    /\ {run.imglst[k].imgcnt : k \in {j \in DOMAIN run.imglst : run.imglst[j].mid = mid}}
         = 1..Cardinality(ImgTagIndices(run.bk.files[mid]))
    /\ \A i \in ImgTagIndices(run.bk.files[mid]) :
          "alt" \in DOMAIN run.bk.files[mid][i].tattr

\* language, title and image inventory of every document transformed so
\* far, and of every content document once the loop has ended
DocumentsProcessed ==
    /\ \A mid \in Range(run.written) :
          /\ LangSet(run.bk.files[mid])
          /\ HasTitleText(run.bk.files[mid])
          /\ Inventoried(mid)
    /\ run.pc \in {"editor", "closed"} \/ (run.pc = "returned" /\ run.status = <<0>>)
          => Range(run.written) = Range(run.bk.text)

\* C6 as stated: with audio/video media or an EPUB3 manifest item with the
\* mathml or scripted property, run inserts no accessibility metadata and
\* derives no role in any content document, while language, title and
\* image inventory are produced for every content document.
C6_NoMetadataNoRoles ==
    Disabled =>
        /\ AccessMetas(run.bk.metaxml) = {}
        /\ ~RoleDerived
        /\ DocumentsProcessed

\* a section with epub:type chapter carries the role doc-chapter
ChapterRoles(doc) ==
    \A i \in DOMAIN doc :
        /\ doc[i].tname = "section" /\ doc[i].kind = "begin"
        /\ "epub:type" \in DOMAIN doc[i].tattr
        /\ doc[i].tattr["epub:type"] = <<"chapter">>
        => "role" \in DOMAIN doc[i].tattr /\ doc[i].tattr["role"] = <<"doc-chapter">>

\* C6, amended: with audio/video media or an EPUB3 manifest item with the
\* mathml or scripted property, run inserts no accessibility metadata;
\* roles are derived as without such content (for EPUB3 documents, never
\* for EPUB2), and language, title and image inventory are produced for
\* every content document.
C6_MetadataOnly ==
    Disabled =>
        /\ AccessMetas(run.bk.metaxml) = {}
        /\ \A mid \in Range(run.written) :
              IF RunE3 THEN ChapterRoles(run.bk.files[mid])
              ELSE \A i \in DOMAIN run.bk.files[mid] :
                       "role" \notin DOMAIN run.bk.files[mid][i].tattr
        /\ DocumentsProcessed

\* an EPUB3 book with a mathml item has been processed to the end: no
\* accessibility metadata, and a chapter section with its role
C6_Witness ==
    /\ run.pc = "returned" /\ run.status = <<0>>
    /\ RunE3 /\ HasManifestProp("mathml") /\ ~HasAudioVideo
    /\ AccessMetas(run.bk.metaxml) = {}
    /\ \E mid \in Range(run.written) : \E i \in DOMAIN run.bk.files[mid] :
          /\ run.bk.files[mid][i].tname = "section"
          /\ "role" \in DOMAIN run.bk.files[mid][i].tattr
          /\ run.bk.files[mid][i].tattr["role"] = <<"doc-chapter">>

\* the alt text of the image record was changed: the texts the editor
\* returned are applied and the text for the image is not the text its
\* alt attribute held
AltChanged(rec) ==
    /\ run.naltdict # EmptyAttr
    /\ run.naltdict[Key(rec)] # xmldecode(rec.alttext)

\* C10: in run, update_alt_text is invoked for an image record exactly when
\* its alt text was changed, by the editor or by the fill-in from the image
\* metadata; never for an image whose alt text is unchanged, an unedited
\* image with XML-escaped characters in its alt attribute included.
C10_UpdatedIffChanged ==
    run.pc = "returned" /\ run.status = <<0>> =>
        \A k \in DOMAIN run.imglst :
            Key(run.imglst[k]) \in Range(run.updated) <=> AltChanged(run.imglst[k])

\* only the images whose text differs from the decoded alt text are patched
\* when no alt attribute holds an XML-escaped character
C10_PlainAltPatched ==
    /\ run.pc = "returned" /\ run.status = <<0>> /\ run.updated # << >>
    /\ \A k \in DOMAIN run.imglst :
          /\ xmldecode(run.imglst[k].alttext) = run.imglst[k].alttext
          /\ Key(run.imglst[k]) \in Range(run.updated) <=> AltChanged(run.imglst[k])

\* the editor was shown and has been closed
EditorClosed == run.gui /\ run.pc \in {"closed", "returned"}

\* C21: after any sequence of alt-text edits and autofill actions, ending
\* the dialog without OK makes GetResults return an empty mapping and run
\* then patches no document; ending it with OK returns a mapping with
\* exactly one entry per image record key, holding the latest alt text of
\* that row.
C21_EditorResults ==
    /\ (EditorClosed /\ ~run.said_ok) =>
          /\ run.naltdict = EmptyAttr
          /\ run.updated = << >>
          /\ run.written = run.converted
    /\ (EditorClosed /\ run.said_ok) =>
          /\ DOMAIN run.naltdict = {Key(run.imglst[k]) : k \in DOMAIN run.imglst}
          /\ Cardinality(DOMAIN run.naltdict) = Len(run.imglst)
          /\ \A key \in DOMAIN run.naltdict : run.naltdict[key] = run.rows[key]

\* the dialog was ended with OK after an autofill and an edit: the mapping
\* holds the description and the text typed
C21_Witness ==
    /\ EditorClosed /\ run.said_ok
    /\ \E k1, k2 \in DOMAIN run.naltdict :
          /\ run.naltdict[k1] = <<"A", " ", "cat">>
          /\ run.naltdict[k2] = T_new

\* C22: in onAIFillAll a row whose request fails (image file unreadable,
\* HTTP error status, any other exception) keeps its alt text and its
\* altdata entry; only a description the service returned is stored as alt
\* text, and a row whose alt text is not blank is never modified.
C22_FailedRequestKeepsText ==
    [][ \A api_key \in BOOLEAN, out \in [MissingRows(run.rows) -> AIOutcomes] :
          AIFillAll(api_key, out) =>
            \A key \in DOMAIN run.rows :
               /\ (key \notin DOMAIN out \/ out[key].kind # "ok") =>
                     /\ run'.rows[key] = run.rows[key]
                     /\ run'.altdata[key] = run.altdata[key]
               /\ run'.rows[key] # run.rows[key] =>
                     /\ run'.rows[key] = Shorten(Strip(out[key].desc))
                     /\ run'.altdata[key] = run'.rows[key] ]_vars

\* run has ended: it returned or an exception left it
RunEnded == run.pc \in {"returned", "raised"}

\* C11: once run has created the temporary image directory, the directory
\* is removed on every path by which run ends: after the editor returns,
\* after the editor fails, and after a failure while the list passed to
\* the editor is built.
C11_TempDirRemoved ==
    RunEnded /\ run.temp_dir # "none" => run.temp_dir = "removed"

\* the loop over text_iter has ended without an exception
TransformEnded ==
    /\ run.pc # "start"
    /\ Range(run.written) = Range(run.bk.text)

\* get_image_metadata_alttext fails for some image record
SomeExtractionFails ==
    \E k \in DOMAIN run.imglst : ExtractionRaises(run.imglst[k], run.bk.images)

\* C12: a failure while extracting alt text for one image yields an empty
\* alt-text candidate for that image only; run does not abort: the editor
\* is shown and every image, the failing one included, is listed in it.
C12_ExtractionFailureTolerated ==
    TransformEnded /\ SomeExtractionFails =>
        /\ run.gui
        /\ \A k \in DOMAIN run.imglst : Key(run.imglst[k]) \in DOMAIN run.altdata

(***************************************************************************)
(* SpecNav: parse_nav and parse_ncx applied to navigation documents        *)
(***************************************************************************)

\* the most toc links of a nav and navPoints of an ncx; a landmarks nav
\* holds up to MaxLinks - 1 links
MaxLinks == 3

\* the targets of toc links and navPoints: two files, one of them also
\* with a fragment
NavHrefs == {<<"ch1.xhtml">>, <<"ch1.xhtml", "#", "s2">>, <<"ch2.xhtml">>}

\* the label of the i-th toc link or navPoint
LinkLabel(i) == <<"Title", ToString(i)>>

\* the links of a landmarks nav: href and epub:type (NoneStr: no attribute)
LmLinks ==
    { [href |-> <<"ch1.xhtml", "#", "f1">>, etype |-> <<"chapter">>],
      [href |-> <<"ch1.xhtml", "#", "f2">>, etype |-> <<"bodymatter">>],
      [href |-> <<"ch1.xhtml">>, etype |-> <<"cover">>],
      [href |-> <<"ch2.xhtml", "#", "f1">>, etype |-> <<"chapter">>],
      [href |-> <<"ch1.xhtml", "#", "f3">>, etype |-> NoneStr] }

\* the a element of a landmark
LmLink(l) ==
    <<TagEvent("a", "begin",
               IF l.etype = NoneStr THEN "href" :> l.href
               ELSE ("href" :> l.href) @@ ("epub:type" :> l.etype)),
      TextEvent(<<"Mark">>), Tag("a", "end")>>

\* what follows the last nav with an epub:type: nothing, a link in a
\* paragraph of the body, a link in a nav element without epub:type
NavTails == {"none", "body", "nav"}

TailLink ==
    <<TagEvent("a", "begin", ("href" :> <<"ch1.xhtml", "#", "t">>)
                             @@ ("epub:type" :> <<"bodymatter">>)),
      TextEvent(<<"Tail">>), Tag("a", "end")>>

NavTail(tail) ==
    IF tail = "none" THEN << >>
    ELSE IF tail = "body" THEN <<Tag("p", "begin")>> \o TailLink \o <<Tag("p", "end")>>
    ELSE <<Tag("nav", "begin")>> \o TailLink \o <<Tag("nav", "end")>>

\* the nav document with the toc links toc, the landmark links lms (no
\* landmarks nav when lms is empty) and the tail
NavDocOf(toc, lms, tail) ==
    <<Tag("html", "begin"), Tag("head", "begin"), Tag("title", "begin"),
      Tag("title", "end"), Tag("head", "end"), Tag("body", "begin"),
      TagEvent("nav", "begin", "epub:type" :> <<"toc">>),
      Tag("h1", "begin"), TextEvent(<<"Contents">>), Tag("h1", "end"),
      Tag("ol", "begin")>>
    \o Flatten([i \in 1..Len(toc) |-> NavEntry(toc[i], LinkLabel(i))])
    \o <<Tag("ol", "end"), Tag("nav", "end")>>
    \o (IF lms = << >> THEN << >>
        ELSE <<TagEvent("nav", "begin", "epub:type" :> <<"landmarks">>)>>
             \o Flatten([i \in 1..Len(lms) |-> LmLink(lms[i])])
             \o <<Tag("nav", "end")>>)
    \o NavTail(tail)
    \o <<Tag("body", "end"), Tag("html", "end")>>

\* the ncx document with navPoints to toc, the i-th with a navLabel text
\* when labelled[i]
NcxDocOf(toc, labelled) ==
    Ncx([i \in 1..Len(toc) |->
            NavPoint(IF labelled[i] THEN LinkLabel(i) ELSE << >>, toc[i])])

\* a navigation document before it is parsed
NavStart(kind, toc, lms, tail, labelled) ==
    [kind |-> kind, toc |-> toc, lms |-> lms, tail |-> tail, labelled |-> labelled,
     pc |-> "start", titlemap |-> EmptyAttr, etypemap |-> EmptyAttr]

\* the variables SpecNav leaves alone
navOthers == <<resolver, extractor, xhtml, opf, run>>

InitNav ==
    /\ nav \in { NavStart("nav", toc, lms, tail, << >>) :
                    toc \in SeqsUpTo(NavHrefs, MaxLinks),
                    lms \in SeqsUpTo(LmLinks, MaxLinks - 1), tail \in NavTails }
               \cup
               UNION { { NavStart("ncx", toc, << >>, "none", labelled) :
                           labelled \in [DOMAIN toc -> BOOLEAN] } :
                       toc \in SeqsUpTo(NavHrefs, MaxLinks) }
    /\ resolver = ResolverIdle
    /\ extractor = ExtractorIdle
    /\ xhtml = XhtmlIdle
    /\ opf = OpfIdle
    /\ run = RunIdle

\* line 447: titlemap, etypemap = parse_nav(bk, navid, navbookpath)
ParseNav ==
    /\ nav.pc = "start" /\ nav.kind = "nav"
    /\ LET n == parse_nav(NavDocOf(nav.toc, nav.lms, nav.tail), id_to_bookpath(NavId0))
       IN nav' = [nav EXCEPT !.pc = "parsed", !.titlemap = n.titlemap,
                             !.etypemap = n.etypemap]
    /\ UNCHANGED navOthers

\* line 450: titlemap = parse_ncx(bk, tocid, ncxbookpath)
ParseNcx ==
    /\ nav.pc = "start" /\ nav.kind = "ncx"
    /\ LET n == parse_ncx(NcxDocOf(nav.toc, nav.labelled), id_to_bookpath("toc.ncx"))
       IN nav' = [nav EXCEPT !.pc = IF n.raised THEN "raised" ELSE "parsed",
                             !.titlemap = n.titlemap]
    /\ UNCHANGED navOthers

NextNav == ParseNav \/ ParseNcx

SpecNav == InitNav /\ [][NextNav]_vars

\* the bookpath a link of the navigation document resolves to
LinkBookpath(href) == build_bookpath(UrlPath(href), "OEBPS/Text")

\* the first toc link or navPoint resolving to the bookpath of the i-th
FirstLinkTo(i) ==
    CHOOSE j \in DOMAIN nav.toc :
        /\ LinkBookpath(nav.toc[j]) = LinkBookpath(nav.toc[i])
        /\ \A k \in 1..(j - 1) : LinkBookpath(nav.toc[k]) # LinkBookpath(nav.toc[i])

\* C14: after parse_nav and parse_ncx the title map entry of each resolved
\* bookpath is the title of the first toc link or navPoint resolving to
\* that bookpath, for every order of the links, orders where links to one
\* bookpath are separated by links to another (A, B, A) included.
C14_FirstTitleKept ==
    nav.pc = "parsed" =>
        \A i \in DOMAIN nav.toc :
            (nav.kind = "ncx" => nav.labelled[FirstLinkTo(i)]) =>
                /\ LinkBookpath(nav.toc[i]) \in DOMAIN nav.titlemap
                /\ nav.titlemap[LinkBookpath(nav.toc[i])] = LinkLabel(FirstLinkTo(i))

\* the links of the landmarks nav with an epub:type and a fragment that
\* resolve to bookpath
MarksOf(bookpath) ==
    { i \in DOMAIN nav.lms :
        /\ nav.lms[i].etype # NoneStr
        /\ UrlFragment(nav.lms[i].href) # << >>
        /\ LinkBookpath(nav.lms[i].href) = bookpath }

\* the bookpaths the links of the model resolve to
NavBookpaths == {LinkBookpath(h) : h \in NavHrefs}

\* C15: after parse_nav the landmark map holds, for each bookpath, the
\* ("id", fragment, epub:type) of the last link of the landmarks nav with
\* an href, an epub:type and a non-empty fragment resolving to it, and no
\* entry when there is no such link; links without a fragment neither
\* create nor overwrite an entry.
C15_LastLandmarkWins ==
    (nav.pc = "parsed" /\ nav.kind = "nav") =>
        \A bookpath \in NavBookpaths :
            IF MarksOf(bookpath) = {} THEN bookpath \notin DOMAIN nav.etypemap
            ELSE LET last == CHOOSE i \in MarksOf(bookpath) :
                                 \A j \in MarksOf(bookpath) : j <= i
                 IN /\ bookpath \in DOMAIN nav.etypemap
                    /\ nav.etypemap[bookpath] =
                          [loctype |-> "id",
                           fragment |-> UrlFragment(nav.lms[last].href),
                           etype |-> nav.lms[last].etype]

\* C19: in parse_nav a link contributes a title only inside the toc nav and
\* a landmark only inside the landmarks nav: a link after the last of
\* these navs has ended, or inside a later nav element without epub:type,
\* neither adds nor changes an entry of the title map or the landmark map.
C19_LinksOutsideNavIgnored ==
    (nav.pc = "parsed" /\ nav.kind = "nav") =>
        LET n == parse_nav(NavDocOf(nav.toc, nav.lms, "none"), id_to_bookpath(NavId0))
        IN nav.titlemap = n.titlemap /\ nav.etypemap = n.etypemap

\* C20: after navigation indexing every value of the title map is a
\* string, for EPUB3 and for EPUB2, an ncx in which the content element of
\* a navPoint is not preceded by a navLabel text included; parse_ncx ends
\* without an exception.
C20_TitlesAreStrings ==
    nav.pc # "start" =>
        /\ nav.pc = "parsed"
        /\ \A bookpath \in DOMAIN nav.titlemap : nav.titlemap[bookpath] # NoneStr
====
